---------------------------- MODULE Spec2Model ----------------------------
(***************************************************************************)
(* State-machine model of the PTP simulator (ptp_simulator.py), of the     *)
(* PTP event messages (ptp/messages.py) and of the delay request-response  *)
(* mechanism (ptp/mechanisms.py), and of the frequency offset estimator    *)
(* and its window optimizers (ptp/frequency.py).                           *)
(*                                                                         *)
(* Time is counted in integer nanoseconds: the program keeps simulation    *)
(* time in float seconds and the RTC nanoseconds as a float, the model     *)
(* keeps the exact values (no floating-point rounding).  The estimator's   *)
(* float quotients are kept as exact fractions.                            *)
(***************************************************************************)
EXTENDS Integers, Sequences, FiniteSets, TLC

VARIABLES
    reg,        \* RegSpec: a TimeReg object, [sec, ns]
    regInit,    \* RegSpec: the register as constructed
    regDeltas,  \* RegSpec: the delta_ns arguments of the add calls so far
    rtc,        \* RtcSpec: an Rtc object
    rtcArgs,    \* RtcSpec: the t_sim arguments of the update calls so far
    msg,        \* MsgSpec: a PtpEvt object
    mevts,      \* MsgSpec: the event heap handed to its methods
    call,       \* MsgSpec: the last method call, its arguments and result
    mlog,       \* MsgSpec: the successful transitions so far, "tx" / "rx"
    sim,        \* Spec: the locals of run() and its position in the loop
    simB,       \* DetSpec: a second run with the same parameters and draws
    drr,        \* DrrSpec: a DelayReqResp object
    results,    \* DrrSpec: what its last process() returned, and what the
                \*   last call raised
    est,        \* EstSpec: an Estimator, its dataset and its last call
    opt         \* LoopSpec: an Estimator, a cache of loop configurations and
                \*   the last call

regVars == <<reg, regInit, regDeltas>>
rtcVars == <<rtc, rtcArgs>>
msgVars == <<msg, mevts, call, mlog>>
simVars == <<sim, simB>>
drrVars == <<drr, results>>
estVars == <<est, opt>>
vars == <<reg, regInit, regDeltas, rtc, rtcArgs, msg, mevts, call, mlog,
          sim, simB, drr, results, est, opt>>

---------------------------------------------------------------------------
(* Values shared by the components *)

\* Python's None in a field that otherwise holds a number >= 0.
None == -1

\* float("inf"), the initial next_tx / next_rx of a message: a number above
\* every time of the model, so that comparisons come out as with inf.
Inf == 2147483647

\* What a method returns or raises.
RetTrue == "True"
RetFalse == "False"
RetNone == "None"
AssertionError == "AssertionError"

\* The 1e9 nanoseconds of a second.
NsPerSec == 1000000000

---------------------------------------------------------------------------
(* TimeReg (ptp_simulator.py) *)

\* TimeReg.__init__: sec = int(sec_0), ns = float(ns_0).
TimeReg(sec_0, ns_0) == [sec |-> sec_0, ns |-> ns_0]

\* A plausible slip in TimeReg.add: the carry into seconds is computed, the
\* nanoseconds are not wrapped.
add_nowrap(r, delta_ns) ==
    [sec |-> r.sec + ((r.ns + delta_ns) \div NsPerSec),
     ns  |-> r.ns + delta_ns]

\* TimeReg.add: sec += floor((ns + delta_ns)/1e9); ns = (ns + delta_ns) % 1e9.
\* \div and % round towards minus infinity, as math.floor and Python's % do.
add(r, delta_ns) ==
    [sec |-> r.sec + ((r.ns + delta_ns) \div NsPerSec),
     ns  |-> (r.ns + delta_ns) % NsPerSec]

\* The value assertions that end TimeReg.add (the isinstance assertions
\* hold of every value of the model).
add_asserts(r) == r.sec >= 0 /\ r.ns >= 0

\* Lexicographic order on (sec, ns).
TimeLeq(a, b) == a.sec < b.sec \/ (a.sec = b.sec /\ a.ns <= b.ns)

---------------------------------------------------------------------------
(* Rtc (ptp_simulator.py) *)

\* The driving clock period in ns: (1.0/clk_freq_hz)*1e9 with the 125e6 Hz
\* that run() configures.
RtcPeriodNs == 8

\* Rtc.__init__: inc_cnt 0, the period and increment value, a random phase
\* within the period and a random initial time.
Rtc(label, sec_0, ns_0, phase_0_ns) ==
    [label      |-> label,
     inc_cnt    |-> 0,
     period_ns  |-> RtcPeriodNs,
     inc_val_ns |-> RtcPeriodNs,
     phase_ns   |-> phase_0_ns,
     time       |-> TimeReg(sec_0, ns_0)]

\* A plausible slip in Rtc.update: the clamp of a negative number of
\* increments (t_sim before the first rising edge) is left out.
update_noclamp(c, t_sim_ns) ==
    LET n_incs     == (t_sim_ns - c.phase_ns) \div c.period_ns
        new_incs   == n_incs - c.inc_cnt
        elapsed_ns == new_incs * c.inc_val_ns
    IN  [c EXCEPT !.inc_cnt = n_incs,
                  !.time    = add(c.time, elapsed_ns)]

\* Rtc.update: the number of increments to date, clamped at 0; the register
\* advances by the increments not yet accounted for.
update(c, t_sim_ns) ==
    LET raw        == (t_sim_ns - c.phase_ns) \div c.period_ns
        n_incs     == IF raw < 0 THEN 0 ELSE raw
        new_incs   == n_incs - c.inc_cnt
        elapsed_ns == new_incs * c.inc_val_ns
    IN  [c EXCEPT !.inc_cnt = n_incs,
                  !.time    = add(c.time, elapsed_ns)]

\* Rtc.get_time: returns self.time, the RTC's own TimeReg object and not a
\* copy of it.  The object is named by the label of its RTC; what it holds
\* is read through Deref at the moment of the read.
get_time(c) == c.label

---------------------------------------------------------------------------
(* The event heap (heapq on a list of times) *)

\* heapq.heappush: the heap gains one entry.  The heap is kept as the
\* sequence of its entries in insertion order; its array layout is not
\* observable through heappush / heappop.
heappush(evts, t) == Append(evts, t)

\* The smallest entry of a non-empty heap.
HeapMin(evts) ==
    CHOOSE t \in {evts[i] : i \in DOMAIN evts} :
        \A i \in DOMAIN evts : t <= evts[i]

\* The heap without its i-th entry.
RemoveAt(evts, i) ==
    [j \in 1..(Len(evts) - 1) |-> IF j < i THEN evts[j] ELSE evts[j + 1]]

\* A plausible slip: the entry taken off the heap is any entry, not a
\* smallest one (a plain list.pop on an unordered list).
heappop_any(evts) == DOMAIN evts

\* heapq.heappop: the entries that may be taken off the heap, the smallest
\* ones.  Which of several equal entries leaves is the heap's business.
heappop(evts) == {i \in DOMAIN evts : evts[i] = HeapMin(evts)}

---------------------------------------------------------------------------
(* PtpEvt (ptp/messages.py) *)

\* sim_time < x for a next_tx / next_rx that may be float("inf").
Lt(sim_time, x) == sim_time < x

\* PtpEvt.__init__ of ptp/messages.py.
PtpEvt(name, period_sec) ==
    [cls           |-> "messages",
     name          |-> name,
     period_sec    |-> period_sec,
     on_way        |-> FALSE,
     next_tx       |-> Inf,
     next_rx       |-> Inf,
     seq_num       |-> None,
     tx_tstamp     |-> None,
     rx_tstamp     |-> None,
     one_way_delay |-> None]

\* PtpEvt._sched_next_tx: the Tx instant plus the period plus the drawn
\* interval uncertainty.
sched_next_tx(m, tx_sim_time, uncertainty_ns) ==
    [m EXCEPT !.next_tx = tx_sim_time + m.period_sec + uncertainty_ns]

\* PtpEvt._sched_rx: the Tx instant plus the drawn one-way delay.
sched_rx(m, tx_sim_time, delay_ns) ==
    [m EXCEPT !.next_rx = tx_sim_time + delay_ns]

\* PtpEvt.sched_tx: asserts that the message is not periodic, then sets
\* next_tx and pushes it.  ret is None, or the exception raised.
sched_tx(m, tx_sim_time, evts) ==
    IF m.period_sec # None
    THEN [msg |-> m, evts |-> evts, ret |-> AssertionError]
    ELSE [msg  |-> [m EXCEPT !.next_tx = tx_sim_time],
          evts |-> heappush(evts, tx_sim_time),
          ret  |-> RetNone]

\* A plausible slip in PtpEvt.tx: the ongoing-transmission test is left out.
tx_ignores_on_way(m, sim_time, rtc_timestamp, evts, uncertainty_ns, delay_ns) ==
    IF m.next_tx = None \/ Lt(sim_time, m.next_tx)
    THEN [msg |-> m, evts |-> evts, ret |-> RetFalse]
    ELSE LET m1 == [m EXCEPT !.on_way    = TRUE,
                             !.tx_tstamp = rtc_timestamp,
                             !.seq_num   = IF m.seq_num = None THEN 0
                                           ELSE m.seq_num + 1]
             m2 == IF m.period_sec # None
                   THEN sched_next_tx(m1, sim_time, uncertainty_ns)
                   ELSE [m1 EXCEPT !.next_tx = None]
             e2 == IF m.period_sec # None
                   THEN heappush(evts, m2.next_tx)
                   ELSE evts
             m3 == sched_rx(m2, sim_time, delay_ns)
         IN  [msg |-> m3, evts |-> heappush(e2, m3.next_rx), ret |-> RetTrue]

\* PtpEvt.tx: no transmission before the scheduled time, without a scheduled
\* time or while a message is on its way.
tx(m, sim_time, rtc_timestamp, evts, uncertainty_ns, delay_ns) ==
    IF m.next_tx = None \/ Lt(sim_time, m.next_tx) \/ m.on_way
    THEN [msg |-> m, evts |-> evts, ret |-> RetFalse]
    ELSE LET m1 == [m EXCEPT !.on_way    = TRUE,
                             !.tx_tstamp = rtc_timestamp,
                             !.seq_num   = IF m.seq_num = None THEN 0
                                           ELSE m.seq_num + 1]
             m2 == IF m.period_sec # None
                   THEN sched_next_tx(m1, sim_time, uncertainty_ns)
                   ELSE [m1 EXCEPT !.next_tx = None]
             e2 == IF m.period_sec # None
                   THEN heappush(evts, m2.next_tx)
                   ELSE evts
             m3 == sched_rx(m2, sim_time, delay_ns)
         IN  [msg |-> m3, evts |-> heappush(e2, m3.next_rx), ret |-> RetTrue]

\* A plausible slip in PtpEvt.rx: the scheduled-time test is left out.
rx_ignores_time(m, sim_time, rx_rtc_tstamp, tx_rtc_tstamp) ==
    IF ~m.on_way
    THEN [msg |-> m, ret |-> RetFalse]
    ELSE [msg |-> [m EXCEPT !.on_way        = FALSE,
                            !.rx_tstamp     = rx_rtc_tstamp,
                            !.one_way_delay = tx_rtc_tstamp - m.tx_tstamp],
          ret |-> RetTrue]

\* A plausible slip in PtpEvt.rx: the delay is taken from the receiver's RTC.
rx_delay_from_receiver(m, sim_time, rx_rtc_tstamp, tx_rtc_tstamp) ==
    IF Lt(sim_time, m.next_rx) \/ ~m.on_way
    THEN [msg |-> m, ret |-> RetFalse]
    ELSE [msg |-> [m EXCEPT !.on_way        = FALSE,
                            !.rx_tstamp     = rx_rtc_tstamp,
                            !.one_way_delay = rx_rtc_tstamp - m.tx_tstamp],
          ret |-> RetTrue]

\* PtpEvt.rx: no reception before the scheduled time or without a message on
\* its way; the one-way delay is the transmitter's RTC at reception minus
\* the Tx timestamp.
rx(m, sim_time, rx_rtc_tstamp, tx_rtc_tstamp) ==
    IF Lt(sim_time, m.next_rx) \/ ~m.on_way
    THEN [msg |-> m, ret |-> RetFalse]
    ELSE [msg |-> [m EXCEPT !.on_way        = FALSE,
                            !.rx_tstamp     = rx_rtc_tstamp,
                            !.one_way_delay = tx_rtc_tstamp - m.tx_tstamp],
          ret |-> RetTrue]

---------------------------------------------------------------------------
(* PtpEvt (ptp_simulator.py) *)

\* PtpEvt.__init__ of ptp_simulator.py: seq_num starts at 0; tx_tstamp and
\* rx_tstamp do not exist before the first tx / rx (None here), and there is
\* no one_way_delay.
SimPtpEvt(name, period_sec) ==
    [cls           |-> "simulator",
     name          |-> name,
     period_sec    |-> period_sec,
     on_way        |-> FALSE,
     next_tx       |-> Inf,
     next_rx       |-> Inf,
     seq_num       |-> 0,
     tx_tstamp     |-> None,
     rx_tstamp     |-> None,
     one_way_delay |-> None]

\* PtpEvt._sched_next_tx of ptp_simulator.py: the Tx instant plus the period.
sim_sched_next_tx(m, tx_sim_time) ==
    [m EXCEPT !.next_tx = tx_sim_time + m.period_sec]

\* PtpEvt._sched_rx of ptp_simulator.py: the Tx instant plus the drawn delay.
sim_sched_rx(m, tx_sim_time, delay_ns) ==
    [m EXCEPT !.next_rx = tx_sim_time + delay_ns]

\* PtpEvt.sched_tx of ptp_simulator.py: sets next_tx and pushes it.
sim_sched_tx(m, tx_sim_time, evts) ==
    [msg  |-> [m EXCEPT !.next_tx = tx_sim_time],
     evts |-> heappush(evts, tx_sim_time),
     ret  |-> RetNone]

\* A plausible slip in PtpEvt.tx of ptp_simulator.py: a periodic message due
\* while the one before it is on its way is skipped, the next one scheduled
\* a period later.
sim_tx_skips_late(m, sim_time, rtc_timestamp, evts, delay_ns) ==
    IF Lt(sim_time, m.next_tx)
    THEN [msg |-> m, evts |-> evts, ret |-> RetNone]
    ELSE IF m.on_way
    THEN IF m.period_sec # None
         THEN [msg  |-> sim_sched_next_tx(m, sim_time),
               evts |-> heappush(evts, sim_time + m.period_sec),
               ret  |-> RetNone]
         ELSE [msg |-> m, evts |-> evts, ret |-> RetNone]
    ELSE LET m1 == [m EXCEPT !.on_way    = TRUE,
                             !.tx_tstamp = rtc_timestamp,
                             !.seq_num   = m.seq_num + 1]
             m2 == IF m.period_sec # None
                   THEN sim_sched_next_tx(m1, sim_time)
                   ELSE m1
             e2 == IF m.period_sec # None
                   THEN heappush(evts, m2.next_tx)
                   ELSE evts
             m3 == sim_sched_rx(m2, sim_time, delay_ns)
         IN  [msg |-> m3, evts |-> heappush(e2, m3.next_rx), ret |-> RetNone]

\* PtpEvt.tx of ptp_simulator.py: returns None whether it transmits or not;
\* next_tx of a non-periodic message is left as it is.
sim_tx(m, sim_time, rtc_timestamp, evts, delay_ns) ==
    IF Lt(sim_time, m.next_tx) \/ m.on_way
    THEN [msg |-> m, evts |-> evts, ret |-> RetNone]
    ELSE LET m1 == [m EXCEPT !.on_way    = TRUE,
                             !.tx_tstamp = rtc_timestamp,
                             !.seq_num   = m.seq_num + 1]
             m2 == IF m.period_sec # None
                   THEN sim_sched_next_tx(m1, sim_time)
                   ELSE m1
             e2 == IF m.period_sec # None
                   THEN heappush(evts, m2.next_tx)
                   ELSE evts
             m3 == sim_sched_rx(m2, sim_time, delay_ns)
         IN  [msg |-> m3, evts |-> heappush(e2, m3.next_rx), ret |-> RetNone]

\* PtpEvt.rx of ptp_simulator.py.
sim_rx(m, sim_time, rtc_timestamp) ==
    IF Lt(sim_time, m.next_rx) \/ ~m.on_way
    THEN [msg |-> m, ret |-> RetFalse]
    ELSE [msg |-> [m EXCEPT !.on_way    = FALSE,
                            !.rx_tstamp = rtc_timestamp],
          ret |-> RetTrue]

---------------------------------------------------------------------------
(* SimTime and run() (ptp_simulator.py) *)

\* The Sync period of run(), 1.0/16 s, in ns.
SyncPeriod == 62500000

\* The default simulation time step of main(), 1e-9 s, in ns.
SimTStep == 1

\* The locals of run() when the main loop is entered: the two messages, the
\* two RTCs, the timer at 0, an empty heap, Sync due at 0.  m_upd, s_upd,
\* tried, log, n_exch, pend and snap are history: the t_sim of each RTC's
\* last update, the transitions tried in the current tick, the transitions
\* done with their times, the Delay_Req receptions so far, the Delay_Req
\* transmission scheduled while none was on its way and not yet done, and
\* what the RTC handed to each message's last tx and rx read at that instant.
run_start(n_iter, sim_t_step, master_rtc, slave_rtc) ==
    [pc            |-> "update",
     n_iter        |-> n_iter,
     t_step        |-> sim_t_step,
     sim_time      |-> 0,
     sync          |-> [SimPtpEvt("Sync", SyncPeriod) EXCEPT !.next_tx = 0],
     dreq          |-> SimPtpEvt("Delay_Req", None),
     master_rtc    |-> master_rtc,
     slave_rtc     |-> slave_rtc,
     evts          |-> <<>>,
     stop          |-> FALSE,
     i_msg         |-> 0,
     sync_received |-> RetFalse,
     m_upd         |-> None,
     s_upd         |-> None,
     tried         |-> <<>>,
     log           |-> <<>>,
     n_exch        |-> 0,
     pend          |-> [set |-> FALSE, t |-> 0, tick |-> 0],
     snap          |-> [k \in {"Sync-tx", "Sync-rx", "Delay_Req-tx",
                                "Delay_Req-rx"} |->
                           [set |-> FALSE, time |-> TimeReg(0, 0)]]]

\* What a TimeReg reference holds now.
Deref(s, ref) == IF ref = s.master_rtc.label THEN s.master_rtc.time
                 ELSE s.slave_rtc.time

\* A plausible slip in the loop: only the master RTC is updated.
run_update_master_only(s) ==
    [s EXCEPT !.pc         = "sync_tx",
              !.master_rtc = update(s.master_rtc, s.sim_time),
              !.m_upd      = s.sim_time,
              !.tried      = <<>>]

\* Lines 301-305: sim_time is read off the timer, both RTCs are updated.
run_update_rtcs(s) ==
    [s EXCEPT !.pc         = "sync_tx",
              !.master_rtc = update(s.master_rtc, s.sim_time),
              !.slave_rtc  = update(s.slave_rtc, s.sim_time),
              !.m_upd      = s.sim_time,
              !.s_upd      = s.sim_time,
              !.tried      = <<>>]

\* The RTC readings at the transitions done, after one more attempt with
\* the RTC rtc_0.
RunSnapped(s, what, fired, rtc_0) ==
    IF fired THEN [s.snap EXCEPT ![what] = [set |-> TRUE, time |-> rtc_0.time]]
    ELSE s.snap

\* The log of transitions done, after one more attempt.
RunLogged(s, what, fired) ==
    IF fired THEN Append(s.log, <<what, s.sim_time>>) ELSE s.log

\* Line 308: sync.tx(sim_time, master_rtc.get_time(), evts).
run_sync_tx(s, delay_ns) ==
    LET r == sim_tx(s.sync, s.sim_time, get_time(s.master_rtc), s.evts,
                    delay_ns)
    IN  [s EXCEPT !.pc    = "sync_rx",
                  !.sync  = r.msg,
                  !.evts  = r.evts,
                  !.tried = Append(s.tried, "Sync-tx"),
                  !.log   = RunLogged(s, "Sync-tx",
                                      r.msg.seq_num # s.sync.seq_num),
                  !.snap  = RunSnapped(s, "Sync-tx",
                                       r.msg.seq_num # s.sync.seq_num,
                                       s.master_rtc)]

\* Line 309: sync_received = sync.rx(sim_time, slave_rtc.get_time()).
run_sync_rx(s) ==
    LET r == sim_rx(s.sync, s.sim_time, get_time(s.slave_rtc))
    IN  [s EXCEPT !.pc            = "dreq_tx",
                  !.sync          = r.msg,
                  !.sync_received = r.ret,
                  !.tried         = Append(s.tried, "Sync-rx"),
                  !.log           = RunLogged(s, "Sync-rx", r.ret = RetTrue),
                  !.snap          = RunSnapped(s, "Sync-rx", r.ret = RetTrue,
                                               s.slave_rtc)]

\* Line 310: dreq.tx(sim_time, slave_rtc.get_time(), evts).
run_dreq_tx(s, delay_ns) ==
    LET r     == sim_tx(s.dreq, s.sim_time, get_time(s.slave_rtc), s.evts,
                        delay_ns)
        fired == r.msg.seq_num # s.dreq.seq_num
    IN  [s EXCEPT !.pc    = "dreq_rx",
                  !.dreq  = r.msg,
                  !.evts  = r.evts,
                  !.tried = Append(s.tried, "Delay_Req-tx"),
                  !.log   = RunLogged(s, "Delay_Req-tx", fired),
                  !.pend  = IF fired THEN [s.pend EXCEPT !.set = FALSE]
                            ELSE s.pend,
                  !.snap  = RunSnapped(s, "Delay_Req-tx", fired, s.slave_rtc)]

\* Line 311: dreq.rx(sim_time, master_rtc.get_time()).
run_dreq_rx(s) ==
    LET r == sim_rx(s.dreq, s.sim_time, get_time(s.master_rtc))
    IN  [s EXCEPT !.pc     = "sched",
                  !.dreq   = r.msg,
                  !.tried  = Append(s.tried, "Delay_Req-rx"),
                  !.log    = RunLogged(s, "Delay_Req-rx", r.ret = RetTrue),
                  !.n_exch = IF r.ret = RetTrue THEN s.n_exch + 1
                             ELSE s.n_exch,
                  !.snap   = RunSnapped(s, "Delay_Req-rx", r.ret = RetTrue,
                                        s.master_rtc)]

\* A plausible slip in the loop: the Delay_Req is scheduled one time step
\* after the Sync reception.
run_sched_late(s) ==
    LET r == IF s.sync_received = RetTrue
             THEN sim_sched_tx(s.dreq, s.sim_time + s.t_step, s.evts)
             ELSE [msg |-> s.dreq, evts |-> s.evts, ret |-> RetNone]
    IN  [s EXCEPT !.pc    = "advance",
                  !.dreq  = r.msg,
                  !.evts  = r.evts,
                  !.i_msg = s.i_msg + 1,
                  !.pend  = IF s.sync_received = RetTrue /\ ~s.dreq.on_way
                            THEN [set |-> TRUE, t |-> s.sim_time,
                                  tick |-> s.i_msg]
                            ELSE s.pend]

\* Lines 314-318: the Delay_Req is scheduled when the Sync was received in
\* this tick; i_msg counts the tick.
run_sched(s) ==
    LET r == IF s.sync_received = RetTrue
             THEN sim_sched_tx(s.dreq, s.sim_time, s.evts)
             ELSE [msg |-> s.dreq, evts |-> s.evts, ret |-> RetNone]
    IN  [s EXCEPT !.pc    = "advance",
                  !.dreq  = r.msg,
                  !.evts  = r.evts,
                  !.i_msg = s.i_msg + 1,
                  !.pend  = IF s.sync_received = RetTrue /\ ~s.dreq.on_way
                            THEN [set |-> TRUE, t |-> s.sim_time,
                                  tick |-> s.i_msg]
                            ELSE s.pend]

\* SimTime.advance / SimTime.step, then the stop criterion (lines 328-329).
run_next_tick(s, next_time, evts) ==
    [s EXCEPT !.sim_time = next_time,
              !.evts     = evts,
              !.stop     = (s.i_msg >= s.n_iter),
              !.pc       = IF s.i_msg >= s.n_iter THEN "done" ELSE "update"]

\* A plausible slip in the loop: the timer advances to the entry pushed last
\* (a plain list.pop), not to the earliest one.
run_advance_to_last(s) ==
    IF Len(s.evts) > 0
    THEN {run_next_tick(s, s.evts[Len(s.evts)], RemoveAt(s.evts, Len(s.evts)))}
    ELSE {run_next_tick(s, s.sim_time + s.t_step, s.evts)}

\* Lines 321-329: the timer advances to the event popped off the heap, or by
\* the time step when the heap is empty; the loop stops after n_iter ticks.
\* The successors: one for each entry heappop may take.
run_advance(s) ==
    IF Len(s.evts) > 0
    THEN {run_next_tick(s, s.evts[i], RemoveAt(s.evts, i)) :
             i \in heappop(s.evts)}
    ELSE {run_next_tick(s, s.sim_time + s.t_step, s.evts)}

\* An instant t as seen from the simulation time now: float("inf") stays,
\* an instant that has passed is kept as -2, whatever it was.
RebaseTime(t, now) ==
    IF t = Inf THEN Inf ELSE IF t < now THEN -2 ELSE t - now

\* A message with its instants as seen from now and its count set back.
RebaseMsg(m, now) ==
    [m EXCEPT !.next_tx = RebaseTime(@, now), !.next_rx = RebaseTime(@, now),
              !.seq_num = 0]

\* The locals of run() at the head of a tick as seen from the simulation
\* time of that tick: every instant is taken relative to it, and what is
\* history (the tick count, the log, the counts) starts afresh.  The loop
\* compares instants with the simulation time and adds periods and delays to
\* it, so its further course is that of the state rebased.
run_rebased(s) ==
    [s EXCEPT !.sim_time = 0,
              !.sync     = RebaseMsg(@, s.sim_time),
              !.dreq     = RebaseMsg(@, s.sim_time),
              !.evts     = [k \in DOMAIN s.evts |-> RebaseTime(s.evts[k], s.sim_time)],
              !.i_msg    = 0,
              !.log      = <<>>,
              !.n_exch   = 0,
              !.pend     = [set |-> FALSE, t |-> 0, tick |-> 0]]

\* The end of a tick of a loop that keeps running: the stop criterion is
\* not met, the timer advances as in run_advance.
run_advance_on(s) == {run_rebased(x) : x \in run_advance([s EXCEPT !.i_msg = 0])}

\* The successors of a state of run() with the delay drawn, by position.
run_step(s, delay_ns) ==
    CASE s.pc = "update"  -> {run_update_rtcs(s)}
      [] s.pc = "sync_tx" -> {run_sync_tx(s, delay_ns)}
      [] s.pc = "sync_rx" -> {run_sync_rx(s)}
      [] s.pc = "dreq_tx" -> {run_dreq_tx(s, delay_ns)}
      [] s.pc = "dreq_rx" -> {run_dreq_rx(s)}
      [] s.pc = "sched"   -> {run_sched(s)}
      [] s.pc = "advance" -> run_advance(s)
      [] OTHER            -> {}

---------------------------------------------------------------------------
(* DelayReqResp (ptp/mechanisms.py) *)

\* Timestamps are counts of ns; a difference of two is a signed count of ns.
\* The quotient x / 2 of Python's true division is kept exactly, as the
\* fraction [num, den].
Over(x, d) == [num |-> x, den |-> d]

\* DelayReqResp.__init__.
DelayReqResp(seq_num, t1) ==
    [seq_num   |-> seq_num,
     t1        |-> t1,
     t2        |-> None,
     t3        |-> None,
     t4        |-> None,
     d_fw      |-> None,
     d_bw      |-> None,
     toffset   |-> None,
     asymmetry |-> None]

\* DelayReqResp.set_t2: asserts the sequence number, then sets t2.
set_t2(o, seq_num, t2) ==
    IF o.seq_num # seq_num THEN [obj |-> o, ret |-> AssertionError]
    ELSE [obj |-> [o EXCEPT !.t2 = t2], ret |-> RetNone]

\* DelayReqResp.set_t3.
set_t3(o, seq_num, t3) ==
    IF o.seq_num # seq_num THEN [obj |-> o, ret |-> AssertionError]
    ELSE [obj |-> [o EXCEPT !.t3 = t3], ret |-> RetNone]

\* DelayReqResp.set_t4.
set_t4(o, seq_num, t4) ==
    IF o.seq_num # seq_num THEN [obj |-> o, ret |-> AssertionError]
    ELSE [obj |-> [o EXCEPT !.t4 = t4], ret |-> RetNone]

\* A plausible slip in _estimate_delay: the turnaround time t3 - t2 is added
\* instead of subtracted.
estimate_delay_plus(o) == Over((o.t4 - o.t1) + (o.t3 - o.t2), 2)

\* DelayReqResp._estimate_delay: (float(t4 - t1) - float(t3 - t2)) / 2.
estimate_delay(o) == Over((o.t4 - o.t1) - (o.t3 - o.t2), 2)

\* DelayReqResp._estimate_time_offset: ((t2 - t1) - (t4 - t3)) / 2.
estimate_time_offset(o) == Over((o.t2 - o.t1) - (o.t4 - o.t3), 2)

\* DelayReqResp.process: the dictionary of metrics.  Subtracting from a
\* timestamp that is still None raises TypeError.  asymmetry and toffset
\* are set by set_truth only, which is not called here: the optional
\* entries are absent.
process(o) ==
    IF None \in {o.t2, o.t3, o.t4}
    THEN [ret |-> "TypeError"]
    ELSE [ret   |-> "dict",
          idx   |-> o.seq_num,
          t1    |-> o.t1,
          t2    |-> o.t2,
          t3    |-> o.t3,
          t4    |-> o.t4,
          d     |-> o.d_fw,
          d_est |-> estimate_delay(o),
          x_est |-> estimate_time_offset(o)]

---------------------------------------------------------------------------
(* Float arithmetic of the estimator, kept exact *)

\* The greatest common divisor of two naturals.
RECURSIVE GCD(_, _)
GCD(a, b) == IF b = 0 THEN a ELSE GCD(b, a % b)

Abs(n) == IF n < 0 THEN -n ELSE n
Sign(n) == IF n < 0 THEN -1 ELSE IF n > 0 THEN 1 ELSE 0

\* A float value: the fraction num/den in lowest terms with den > 0, or with
\* den = 0 one of the values a float division by zero produces: inf (num 1),
\* -inf (num -1) and nan (num 0).
Q(n, d) ==
    IF d = 0 THEN [num |-> Sign(n), den |-> 0]
    ELSE LET g == GCD(Abs(n), Abs(d))
         IN  [num |-> Sign(d) * (n \div g), den |-> Abs(d) \div g]

QInt(n) == [num |-> n, den |-> 1]
NaN == [num |-> 0, den |-> 0]
PosInf == [num |-> 1, den |-> 0]
IsNaN(a) == a.den = 0 /\ a.num = 0

\* a + b.
QAdd(a, b) ==
    IF IsNaN(a) \/ IsNaN(b) THEN NaN
    ELSE IF a.den = 0 /\ b.den = 0 THEN (IF a.num = b.num THEN a ELSE NaN)
    ELSE IF a.den = 0 THEN a
    ELSE IF b.den = 0 THEN b
    ELSE LET g == GCD(a.den, b.den)
             l == (a.den \div g) * b.den
         IN  Q(a.num * (l \div a.den) + b.num * (l \div b.den), l)

QNeg(a) == [a EXCEPT !.num = -a.num]
QSub(a, b) == QAdd(a, QNeg(b))
QAbs(a) == [a EXCEPT !.num = Abs(a.num)]

\* a * b; inf * 0 is nan.
QMul(a, b) ==
    IF IsNaN(a) \/ IsNaN(b) THEN NaN
    ELSE IF a.den = 0 \/ b.den = 0 THEN Q(Sign(a.num) * Sign(b.num), 0)
    ELSE LET g1 == GCD(Abs(a.num), b.den)
             g2 == GCD(Abs(b.num), a.den)
         IN  Q((a.num \div g1) * (b.num \div g2),
               (a.den \div g2) * (b.den \div g1))

\* a / b as numpy divides float arrays: x / 0 is inf or -inf, 0 / 0 is nan
\* (a warning, no exception).
QDiv(a, b) ==
    IF IsNaN(a) \/ IsNaN(b) THEN NaN
    ELSE IF b.den = 0 THEN (IF a.den = 0 THEN NaN ELSE QInt(0))
    ELSE IF b.num = 0 THEN Q(Sign(a.num), 0)
    ELSE QMul(a, Q(b.den, b.num))

\* a < b; every comparison with nan is False.
QLt(a, b) ==
    IF IsNaN(a) \/ IsNaN(b) THEN FALSE
    ELSE IF a.den = 0 \/ b.den = 0
         THEN (IF a.den = 0 THEN a.num ELSE 0) < (IF b.den = 0 THEN b.num ELSE 0)
    ELSE a.num * (b.den \div GCD(a.den, b.den))
         < b.num * (a.den \div GCD(a.den, b.den))

\* The sum of a sequence of floats, left to right.
RECURSIVE QSum(_)
QSum(s) == IF s = <<>> THEN QInt(0) ELSE QAdd(QSum(SubSeq(s, 1, Len(s) - 1)), s[Len(s)])

\* np.mean: the sum over the count; nan (a warning) for an empty array.
QMean(s) == QDiv(QSum(s), QInt(Len(s)))

\* The largest of a non-empty sequence of floats, none of them nan.
QMax(s) == CHOOSE m \in {s[k] : k \in DOMAIN s} : \A k \in DOMAIN s : ~QLt(m, s[k])

\* Python's seq[-n:]: the last n elements, and all of them for n = 0.
LastN(s, n) ==
    IF n = 0 \/ n >= Len(s) THEN s ELSE SubSeq(s, Len(s) - n + 1, Len(s))

\* Python's seq[:n].
FirstN(s, n) == IF n >= Len(s) THEN s ELSE SubSeq(s, 1, n)

---------------------------------------------------------------------------
(* Estimator (ptp/frequency.py) *)

\* The dataset is a list of dicts.  A dict is kept as a record with a slot
\* per key the estimator reads or writes; a key the dict does not have holds
\* Absent.  Records are numbered from 0, as the list is.
Absent == [num |-> 0, den |-> -1]
Has(r, key) == r[key] # Absent
pop(r, key) == [r EXCEPT ![key] = Absent]
At(data, i) == data[i + 1]
Idx(data) == 0 .. (Len(data) - 1)

\* The record indices from `from` on that satisfy a test, in list order.
IdxWhere(data, from, Test(_)) ==
    SelectSeq([k \in 1..(Len(data) - from) |-> from + k - 1], Test)

\* Estimator.__init__: asserts delta > 0 (and that it is an int).
Estimator(data, delta) ==
    IF delta > 0 THEN [data |-> data, delta |-> delta, ret |-> RetNone]
    ELSE [data |-> data, delta |-> delta, ret |-> AssertionError]

\* The windowed quotient process computes for record i >= delta: the
\* difference of x_est (two-way) over the difference of t1, or the
\* difference of the slave's intervals and the master's over the master's
\* (one-way: t2 against t1; one-way-reversed: t3 against t4).
process_y_est(data, delta, strategy, i) ==
    LET slave ==
            CASE strategy = "one-way" -> At(data, i).t2 - At(data, i - delta).t2
              [] strategy = "one-way-reversed" ->
                     At(data, i).t3 - At(data, i - delta).t3
              [] OTHER -> At(data, i).x_est - At(data, i - delta).x_est
        master ==
            IF strategy = "one-way-reversed"
            THEN At(data, i).t4 - At(data, i - delta).t4
            ELSE At(data, i).t1 - At(data, i - delta).t1
    IN  IF strategy = "two-way"
        THEN QDiv(QInt(slave), QInt(master))
        ELSE QDiv(QInt(slave - master), QInt(master))

\* A plausible slip in process: the previous estimates are not removed.
process_noclear(data, delta, strategy) ==
    [data |-> [k \in DOMAIN data |->
                  IF k - 1 >= delta /\ delta > 0
                  THEN [data[k] EXCEPT
                           !.y_est = process_y_est(data, delta, strategy, k - 1)]
                  ELSE data[k]],
     ret  |-> RetNone]

\* A plausible slip in process: the two-way estimate takes the form of the
\* one-way ones, (delta_x - delta_master) / delta_master.
process_minus_master(data, delta, strategy) ==
    LET cleared == [k \in DOMAIN data |-> pop(data[k], "y_est")]
        y(i) == LET dm == At(data, i).t1 - At(data, i - delta).t1
                    dx == At(data, i).x_est - At(data, i - delta).x_est
                IN  QDiv(QInt(dx - dm), QInt(dm))
    IN  [data |-> [k \in DOMAIN data |->
                      IF k - 1 >= delta /\ delta > 0
                      THEN [cleared[k] EXCEPT !.y_est = y(k - 1)] ELSE cleared[k]],
         ret  |-> RetNone]

\* A plausible slip in process: the estimate is attached to the earlier
\* index of its window.
process_earlier_index(data, delta, strategy) ==
    LET cleared == [k \in DOMAIN data |-> pop(data[k], "y_est")]
    IN  [data |-> [k \in DOMAIN data |->
                      IF k + delta <= Len(data) /\ delta > 0
                      THEN [cleared[k] EXCEPT
                               !.y_est = process_y_est(data, delta, strategy,
                                                       k - 1 + delta)]
                      ELSE cleared[k]],
         ret  |-> RetNone]

\* Estimator.process: asserts the strategy, removes every y_est, computes
\* the windowed estimates and attaches estimate i to record delta + i.
\* With delta = 0 the two slices differ in length and the subtraction raises
\* ValueError, after the removal (a dataset of one record aside).
est_process(data, delta, strategy) ==
    LET cleared == [k \in DOMAIN data |-> pop(data[k], "y_est")]
    IN  IF strategy \notin {"one-way", "one-way-reversed", "two-way"}
        THEN [data |-> data, ret |-> AssertionError]
        ELSE IF delta = 0 /\ Len(data) > 1
        THEN [data |-> cleared, ret |-> "ValueError"]
        ELSE [data |-> [k \in DOMAIN data |->
                           IF k - 1 >= delta /\ delta > 0
                           THEN [cleared[k] EXCEPT
                                    !.y_est = process_y_est(data, delta, strategy,
                                                            k - 1)]
                           ELSE cleared[k]],
              ret  |-> RetNone]

\* Estimator.set_truth: removes every rtc_y, takes the window from the
\* argument or, when that is None (or 0), from self.delta, and attaches the
\* windowed difference quotient of the true offset x.  No check is made on
\* the window: a negative one, -k, slices the last k records against the
\* first k, which is the window len(data) - k (and 0 / 0 on every record
\* for k >= len(data)).
set_truth(data, self_delta, delta) ==
    LET cleared == [k \in DOMAIN data |-> pop(data[k], "rtc_y")]
        d    == IF delta = None \/ delta = 0 THEN self_delta ELSE delta
        w    == IF d >= 0 THEN d
                ELSE IF -d < Len(data) THEN Len(data) + d ELSE 0
        y(i) == QDiv(QInt(At(data, i).x - At(data, i - w).x),
                     QInt(At(data, i).t1 - At(data, i - w).t1))
    IN  IF d = 0 /\ Len(data) > 1
        THEN [data |-> cleared, ret |-> "ValueError"]
        ELSE [data |-> [k \in DOMAIN data |->
                           IF k - 1 >= w /\ d # 0
                           THEN [cleared[k] EXCEPT !.rtc_y = y(k - 1)]
                           ELSE cleared[k]],
              ret  |-> RetNone]

\* A plausible slip in estimate_drift: the previous drifts are not removed.
estimate_drift_noclear(data) ==
    [k \in DOMAIN data |->
        IF k >= 2 /\ Has(data[k], "y_est")
        THEN [data[k] EXCEPT
                 !.drift = QMul(data[k].y_est, QInt(data[k].t1 - data[k - 1].t1))]
        ELSE data[k]]

\* A plausible slip in estimate_drift: the record before is looked up with
\* the enumerated index as if it were the record's own, which takes the
\* record two places back (the last record, index -1, for record 1).
estimate_drift_lagged_index(data) ==
    LET cleared == [k \in DOMAIN data |-> pop(data[k], "drift")]
    IN  [k \in DOMAIN data |->
            IF k >= 2 /\ Has(cleared[k], "y_est")
            THEN [cleared[k] EXCEPT
                     !.drift = QMul(cleared[k].y_est,
                                    QInt(cleared[k].t1
                                         - At(cleared, (k - 3) % Len(data)).t1))]
            ELSE cleared[k]]

\* Estimator.estimate_drift: removes every drift; every record but the first
\* that has y_est gets drift = y_est * (t1 - the previous record's t1).
estimate_drift(data) ==
    LET cleared == [k \in DOMAIN data |-> pop(data[k], "drift")]
    IN  [k \in DOMAIN data |->
            IF k >= 2 /\ Has(cleared[k], "y_est")
            THEN [cleared[k] EXCEPT
                     !.drift = QMul(cleared[k].y_est,
                                    QInt(cleared[k].t1 - cleared[k - 1].t1))]
            ELSE cleared[k]]

\* The proportional and integral gains of loop, Kp and Ki.
loop_gains(damping, loopbw) ==
    LET theta_n == QDiv(loopbw,
                        QAdd(damping, QDiv(QInt(1), QMul(QInt(4), damping))))
        denomin == QAdd(QAdd(QInt(1), QMul(QMul(QInt(2), damping), theta_n)),
                        QMul(theta_n, theta_n))
    IN  [Kp |-> QDiv(QMul(QMul(QInt(4), damping), theta_n), denomin),
         Ki |-> QDiv(QMul(QInt(4), QMul(theta_n, theta_n)), denomin)]

\* A plausible slip in loop's iterations: x_loop is saved after dds has been
\* advanced, not before.
RECURSIVE loop_run_saves_advanced(_, _, _, _, _, _)
loop_run_saves_advanced(data, i, f_int, dds, K, i_settling) ==
    IF i >= Len(data) THEN data
    ELSE LET r      == At(data, i)
             err    == QSub(QInt(r.x_est), dds)
             f_prop == QMul(K.Kp, err)
             f_int2 == QAdd(f_int, QMul(K.Ki, err))
             f_err  == QAdd(f_prop, f_int2)
             saved  == IF i >= i_settling
                       THEN [r EXCEPT !.drift = f_err,
                                      !.x_loop = QAdd(dds, f_err)]
                       ELSE r
         IN  loop_run_saves_advanced([data EXCEPT ![i + 1] = saved], i + 1,
                                     f_int2, QAdd(dds, f_err), K, i_settling)

\* The iterations of loop from record i on: the error against the tracked
\* estimate dds, the proportional and integral terms, the outputs saved
\* from i_settling on, dds advanced by the loop's output.
RECURSIVE loop_run(_, _, _, _, _, _)
loop_run(data, i, f_int, dds, K, i_settling) ==
    IF i >= Len(data) THEN data
    ELSE LET r      == At(data, i)
             err    == QSub(QInt(r.x_est), dds)
             f_prop == QMul(K.Kp, err)
             f_int2 == QAdd(f_int, QMul(K.Ki, err))
             f_err  == QAdd(f_prop, f_int2)
             saved  == IF i >= i_settling
                       THEN [r EXCEPT !.drift = f_err, !.x_loop = dds]
                       ELSE r
         IN  loop_run([data EXCEPT ![i + 1] = saved], i + 1, f_int2,
                      QAdd(dds, f_err), K, i_settling)

\* A plausible slip in loop: the tracked estimate starts from 0 and not from
\* the first x_est.
loop_from_zero(data, damping, loopbw, settling) ==
    LET cleared == [k \in DOMAIN data |-> pop(pop(data[k], "drift"), "x_loop")]
        i_settling == (settling.num * Len(data)) \div settling.den
    IN  loop_run(cleared, 0, QInt(0), QInt(0),
                 loop_gains(damping, loopbw), i_settling)

\* A plausible slip in loop: a warm start, the tracked estimate starts from
\* the x_loop the last record holds from an earlier run.
loop_warm_start(data, damping, loopbw, settling) ==
    LET cleared == [k \in DOMAIN data |-> pop(pop(data[k], "drift"), "x_loop")]
        i_settling == (settling.num * Len(data)) \div settling.den
        last == data[Len(data)]
    IN  loop_run(cleared, 0, QInt(0),
                 IF Has(last, "x_loop") THEN last.x_loop
                 ELSE QInt(At(data, 0).x_est),
                 loop_gains(damping, loopbw), i_settling)

\* Estimator.loop: the gains, every drift and x_loop removed, the settling
\* index int(floor(settling * len(data))), then the loop from f_int = 0 and
\* dds = the first x_est.  settling is the fraction [num, den].
loop(data, damping, loopbw, settling) ==
    LET cleared == [k \in DOMAIN data |-> pop(pop(data[k], "drift"), "x_loop")]
        i_settling == (settling.num * Len(data)) \div settling.den
    IN  loop_run(cleared, 0, QInt(0), QInt(At(data, 0).x_est),
                 loop_gains(damping, loopbw), i_settling)

\* The record indices that have a drift, in list order: the records behind
\* the arrays true_drift and drift_est of _eval_drift_err.
drift_idx(data) == IdxWhere(data, 0, LAMBDA i : Has(At(data, i), "drift"))

\* true_drift of _eval_drift_err: x minus the x of the record before, which
\* for record 0 is the last record (index -1).
true_drift(data, i) ==
    At(data, i).x - At(data, (i - 1) % Len(data)).x

\* The running sums of _eval_drift_err over a sequence of values: cumsum if
\* the dataset has at most N records, and the sums over every N consecutive
\* values (the valid part of the convolution with N ones) if it has more.
running_sum(vals, len_data, N) ==
    IF len_data <= N
    THEN [k \in 1..Len(vals) |-> QSum(SubSeq(vals, 1, k))]
    ELSE [k \in 1..(IF Len(vals) >= N THEN Len(vals) - N + 1 ELSE 0) |->
             QSum(SubSeq(vals, k, k + N - 1))]

\* The loss of _eval_drift_err and of optimize_to_y over the selected
\* errors: the mean of their squares (nan for none) or the largest absolute
\* value (np.amax raises ValueError for none; nan if any is nan).
loss_of(errs, loss) ==
    IF loss = "mse"
    THEN [ret |-> RetNone,
          error |-> QMean([k \in DOMAIN errs |-> QMul(errs[k], errs[k])])]
    ELSE IF errs = <<>> THEN [ret |-> "ValueError", error |-> NaN]
    ELSE IF \E k \in DOMAIN errs : IsNaN(errs[k])
    THEN [ret |-> RetNone, error |-> NaN]
    ELSE [ret |-> RetNone,
          error |-> QMax([k \in DOMAIN errs |-> QAbs(errs[k])])]

\* The record indices whose drift enters the errors _eval_drift_err selects:
\* the last n_samples drifts under the instantaneous criterion; every drift
\* summed into one of the last n_samples running sums under the cumulative.
eval_drift_scored(data, criterion, n_samples, N) ==
    LET idx == drift_idx(data)
    IN  IF criterion = "instantaneous"
        THEN {LastN(idx, n_samples)[k] : k \in DOMAIN LastN(idx, n_samples)}
        ELSE IF Len(data) <= N
        THEN (IF idx = <<>> THEN {} ELSE {idx[k] : k \in DOMAIN idx})
        ELSE LET sums == running_sum([k \in DOMAIN idx |-> QInt(0)], Len(data), N)
                 first == IF n_samples = 0 \/ n_samples >= Len(sums) THEN 1
                          ELSE Len(sums) - n_samples + 1
             IN  IF sums = <<>> THEN {}
                 ELSE {idx[k] : k \in first..Len(idx)}

\* Estimator._eval_drift_err: the assertions on criterion and loss, then the
\* errors of the drift estimates against the
\* true drifts, or of their running sums normalized by the absolute true
\* running sum, over the last n_samples values, and the loss over them.
eval_drift_err(data, loss, criterion, n_samples, N) ==
    LET idx   == drift_idx(data)
        true  == [k \in DOMAIN idx |-> QInt(true_drift(data, idx[k]))]
        estim == [k \in DOMAIN idx |-> At(data, idx[k]).drift]
        inst  == LastN([k \in DOMAIN idx |-> QSub(estim[k], true[k])], n_samples)
        tcum  == running_sum(true, Len(data), N)
        ecum  == running_sum(estim, Len(data), N)
        diff  == LastN([k \in DOMAIN tcum |-> QSub(ecum[k], tcum[k])], n_samples)
        norm  == LastN([k \in DOMAIN tcum |-> QAbs(tcum[k])], n_samples)
        cum   == [k \in DOMAIN diff |-> QDiv(diff[k], norm[k])]
    IN  IF criterion \notin {"cumulative", "instantaneous"}
           \/ loss \notin {"mse", "max-error"}
        THEN [ret |-> AssertionError, error |-> NaN]
        ELSE IF criterion = "instantaneous" THEN loss_of(inst, loss)
        ELSE loss_of(cum, loss)

\* int(np.floor(np.log2(n / d))) for n, d > 0.
RECURSIVE FloorLog2(_, _)
FloorLog2(n, d) ==
    IF n < d THEN FloorLog2(2 * n, d) - 1
    ELSE IF n >= 2 * d THEN FloorLog2(n, 2 * d) + 1
    ELSE 0

\* 2**k for k >= 0.
RECURSIVE Pow2(_)
Pow2(k) == IF k = 0 THEN 1 ELSE 2 * Pow2(k - 1)

\* A plausible slip in window_len: the candidates start at 2**0.
window_len_from_one(data, max_window_span) ==
    LET log_max_window ==
            FloorLog2(max_window_span.num * Len(data), max_window_span.den)
    IN  [k \in 1..(log_max_window + 1) |-> Pow2(k - 1)]

\* window_len of the optimizers: 2**1 .. 2**log_max_window in ascending
\* order, log_max_window = int(floor(log2(max_window_span * len(data)))),
\* and no candidate at all if that is below 1.  max_window_span is the
\* fraction [num, den], > 0.
window_len(data, max_window_span) ==
    LET log_max_window ==
            FloorLog2(max_window_span.num * Len(data), max_window_span.den)
    IN  [k \in 1..log_max_window |-> Pow2(k)]

\* The records behind y_err of optimize_to_y for the window in force: those
\* from index delta on that have both y_est and rtc_y, in list order.
y_err_idx(data, delta) ==
    IdxWhere(data, delta,
             LAMBDA i : Has(At(data, i), "y_est") /\ Has(At(data, i), "rtc_y"))

\* y_err of optimize_to_y over the records idx, kept in units of 1: the
\* program's factor 1e9 (ppb) scales every candidate's error alike, and its
\* square would exceed 32-bit integers.
y_err(data, idx) ==
    [j \in DOMAIN idx |-> QSub(At(data, idx[j]).y_est, At(data, idx[j]).rtc_y)]

\* The state of a window search before its first candidate: min_error =
\* np.inf, N_opt = 0.  trace is, per candidate tried, its window, its error
\* and the records its error was taken over.
search_start(e) ==
    [data |-> e.data, delta |-> e.delta, ret |-> RetNone,
     min_error |-> PosInf, N_opt |-> 0, trace |-> <<>>]

\* The end of a candidate's turn in a window search, its estimates in data
\* and its loss in l: an exception of the loss leaves the search; otherwise
\* the candidate becomes the best one if its error is below min_error.
search_update(st, N, data, l, scored) ==
    IF l.ret # RetNone
    THEN [st EXCEPT !.data = data, !.delta = N, !.ret = l.ret]
    ELSE [st EXCEPT !.data = data, !.delta = N,
                    !.trace = Append(@, [N |-> N, error |-> l.error,
                                         scored |-> scored]),
                    !.min_error = IF QLt(l.error, @) THEN l.error ELSE @,
                    !.N_opt = IF QLt(l.error, st.min_error) THEN N ELSE @]

\* A plausible slip at the end of a window search: the estimates are made
\* once more with the winning window.
search_end_with_winner(st) ==
    IF st.ret # RetNone THEN st
    ELSE [st EXCEPT !.delta = st.N_opt,
                    !.data = IF st.N_opt > 0
                             THEN estimate_drift(
                                      est_process(st.data, st.N_opt, "two-way").data)
                             ELSE @]

\* The end of a window search: self.delta = N_opt, unless it was left by an
\* exception.
search_end(st) == IF st.ret # RetNone THEN st ELSE [st EXCEPT !.delta = st.N_opt]

\* The loss of optimize_to_y for a candidate whose estimates are in data:
\* over the first n_samples of y_err.
optimize_to_y_loss(data, idx, loss, n_samples) ==
    loss_of(FirstN(y_err(data, idx), n_samples), loss)

\* The records the first n_samples of y_err come from.
optimize_to_y_scored(idx, n_samples) ==
    {FirstN(idx, n_samples)[j] : j \in DOMAIN FirstN(idx, n_samples)}

\* A candidate's turn in optimize_to_y, its estimates in data.
optimize_to_y_score(st, N, data, loss, n_samples) ==
    search_update(st, N, data,
                  optimize_to_y_loss(data, y_err_idx(data, N), loss, n_samples),
                  optimize_to_y_scored(y_err_idx(data, N), n_samples))

\* Every y_est removed, as the optimizers do before a candidate's process().
pop_y_est(data) == [j \in DOMAIN data |-> pop(data[j], "y_est")]

\* The body of optimize_to_y's loop for the candidates from the k-th on:
\* y_est removed, self.delta = N, process(), the loss, the comparison.
RECURSIVE optimize_to_y_run(_, _, _, _, _)
optimize_to_y_run(st, wl, k, loss, n_samples) ==
    IF k > Len(wl) \/ st.ret # RetNone THEN st
    ELSE optimize_to_y_run(
             optimize_to_y_score(
                 st, wl[k], est_process(pop_y_est(st.data), wl[k], "two-way").data,
                 loss, n_samples),
             wl, k + 1, loss, n_samples)

\* n_samples of the optimizers: len(data) minus the largest candidate.
n_samples_of(data, wl) == Len(data) - wl[Len(wl)]

\* Estimator.optimize_to_y on the estimator e = [data, delta]: the
\* candidates (IndexError from window_len[-1] if there is none), the
\* assertion n_samples > 0, the loop, and self.delta = N_opt.
optimize_to_y(e, loss, max_window_span) ==
    IF loss \notin {"mse", "max-error"}
    THEN [search_start(e) EXCEPT !.ret = AssertionError]
    ELSE IF Len(window_len(e.data, max_window_span)) = 0
    THEN [search_start(e) EXCEPT !.ret = "IndexError"]
    ELSE IF n_samples_of(e.data, window_len(e.data, max_window_span)) <= 0
    THEN [search_start(e) EXCEPT !.ret = AssertionError]
    ELSE search_end(
             optimize_to_y_run(
                 search_start(e), window_len(e.data, max_window_span), 1, loss,
                 n_samples_of(e.data, window_len(e.data, max_window_span))))

\* The number of drift estimates accumulated in a window of
\* _eval_drift_err, its default N: the optimizers do not pass another.
EvalN == 8192

\* A candidate's turn in optimize_to_drift, its estimates in data.
optimize_to_drift_score(st, N, data, loss, criterion, n_samples) ==
    search_update(st, N, data,
                  eval_drift_err(data, loss, criterion, n_samples, EvalN),
                  eval_drift_scored(data, criterion, n_samples, EvalN))

\* Every y_est and drift removed, as optimize_to_drift does before a
\* candidate's process().
pop_y_est_drift(data) ==
    [j \in DOMAIN data |-> pop(pop(data[j], "y_est"), "drift")]

\* The body of optimize_to_drift's loop for the candidates from the k-th
\* on: y_est and drift removed, self.delta = N, process(), estimate_drift(),
\* the error, the comparison.
RECURSIVE optimize_to_drift_run(_, _, _, _, _, _)
optimize_to_drift_run(st, wl, k, loss, criterion, n_samples) ==
    IF k > Len(wl) \/ st.ret # RetNone THEN st
    ELSE optimize_to_drift_run(
             optimize_to_drift_score(
                 st, wl[k],
                 estimate_drift(
                     est_process(pop_y_est_drift(st.data), wl[k], "two-way").data),
                 loss, criterion, n_samples),
             wl, k + 1, loss, criterion, n_samples)

\* Estimator.optimize_to_drift on the estimator e = [data, delta].
optimize_to_drift(e, loss, criterion, max_window_span) ==
    IF criterion \notin {"cumulative", "instantaneous"}
       \/ loss \notin {"mse", "max-error"}
    THEN [search_start(e) EXCEPT !.ret = AssertionError]
    ELSE IF Len(window_len(e.data, max_window_span)) = 0
    THEN [search_start(e) EXCEPT !.ret = "IndexError"]
    ELSE IF n_samples_of(e.data, window_len(e.data, max_window_span)) <= 0
    THEN [search_start(e) EXCEPT !.ret = AssertionError]
    ELSE search_end(
             optimize_to_drift_run(
                 search_start(e), window_len(e.data, max_window_span), 1, loss,
                 criterion,
                 n_samples_of(e.data, window_len(e.data, max_window_span))))

\* The cache handler of optimize_loop (ptp/cache.py is not among the sources
\* of this development): a store of one configuration per identifier, as its
\* two calls are described.  NoCfg is what load gives when nothing was saved
\* under the identifier.
NoCfg ==
    [n_samples |-> None, error |-> "none", damping |-> Absent, loopbw |-> Absent]

\* Cache.load(identifier).
cache_load(cache, identifier) == cache[identifier]

\* Cache.save(data, identifier).
cache_save(cache, cfg, identifier) == [cache EXCEPT ![identifier] = cfg]

\* A plausible slip in _is_cfg_loop_valid: the error criterion the cached
\* configuration was tuned for is not compared.
is_cfg_loop_valid_any_error(data, cfg, error) ==
    cfg # NoCfg /\ cfg.n_samples = Len(data)

\* Estimator._is_cfg_loop_valid on the dataset: the cached configuration is
\* there, was tuned on as many samples, and for the same error criterion.
is_cfg_loop_valid(data, cfg, error) ==
    cfg # NoCfg /\ cfg.n_samples = Len(data) /\ cfg.error = error

\* The grid of optimize_loop.  The program sweeps 7 damping factors by 45
\* loop bandwidths; the model sweeps the damping factors 0.5 and 1.0 of the
\* program's list by its loop bandwidth 0.5 (gains 4/7, 4/7 and 40/49,
\* 16/49), the part of the grid whose exact arithmetic stays within the
\* integers of the checker, in the program's order: damping outside,
\* bandwidth inside.
damping_vec == <<Q(1, 2), Q(1, 1)>>
loopbw_vec == <<Q(1, 2)>>
grid_len == Len(damping_vec) * Len(loopbw_vec)
grid_damping(k) == damping_vec[((k - 1) \div Len(loopbw_vec)) + 1]
grid_loopbw(k) == loopbw_vec[((k - 1) % Len(loopbw_vec)) + 1]

\* The state of the sweep before its first candidate: m_error = np.inf,
\* best_damping = best_loopbw = None.  trace is, per candidate tried, its
\* parameters, its error and what its evaluation raised; events is, in
\* program order, every cache.load ("load"), candidate evaluation ("eval")
\* and cache.save ("save") of the call so far.
sweep_start(data, events) ==
    [data |-> data, ret |-> RetNone, m_error |-> PosInf,
     best_damping |-> Absent, best_loopbw |-> Absent, trace |-> <<>>,
     events |-> events]

\* A plausible slip in the sweep: the configuration is saved whenever a
\* candidate becomes the best one, inside the loops.
sweep_update_saves_best(st, damping, loopbw, data, l) ==
    IF l.ret # RetNone
    THEN [st EXCEPT !.data = data, !.ret = l.ret,
                    !.trace = Append(@, [damping |-> damping, loopbw |-> loopbw,
                                         error |-> l.error, ret |-> l.ret]),
                    !.events = Append(@, "eval")]
    ELSE [st EXCEPT !.data = data,
                    !.trace = Append(@, [damping |-> damping, loopbw |-> loopbw,
                                         error |-> l.error, ret |-> l.ret]),
                    !.events = IF QLt(l.error, st.m_error)
                               THEN @ \o <<"eval", "save">>
                               ELSE Append(@, "eval"),
                    !.m_error = IF QLt(l.error, @) THEN l.error ELSE @,
                    !.best_damping = IF QLt(l.error, st.m_error) THEN damping ELSE @,
                    !.best_loopbw = IF QLt(l.error, st.m_error) THEN loopbw ELSE @]

\* The end of a candidate's turn in the sweep, the loop's estimates in data
\* and the error in l: an exception of the evaluation leaves the sweep (no
\* handler surrounds it); otherwise the candidate becomes the best one if
\* its error is below m_error.
sweep_update(st, damping, loopbw, data, l) ==
    IF l.ret # RetNone
    THEN [st EXCEPT !.data = data, !.ret = l.ret,
                    !.trace = Append(@, [damping |-> damping, loopbw |-> loopbw,
                                         error |-> l.error, ret |-> l.ret]),
                    !.events = Append(@, "eval")]
    ELSE [st EXCEPT !.data = data,
                    !.trace = Append(@, [damping |-> damping, loopbw |-> loopbw,
                                         error |-> l.error, ret |-> l.ret]),
                    !.events = Append(@, "eval"),
                    !.m_error = IF QLt(l.error, @) THEN l.error ELSE @,
                    !.best_damping = IF QLt(l.error, st.m_error) THEN damping ELSE @,
                    !.best_loopbw = IF QLt(l.error, st.m_error) THEN loopbw ELSE @]

\* A candidate's turn in the sweep, the loop's estimates in data: the error
\* over every drift estimate (n_samples = 0).
sweep_score(st, damping, loopbw, data, loss, criterion) ==
    sweep_update(st, damping, loopbw, data,
                 eval_drift_err(data, loss, criterion, 0, EvalN))

\* The body of optimize_loop's loops for the candidates from the k-th on:
\* loop() with settling = max_transient, the error, the comparison.
RECURSIVE sweep_run(_, _, _, _, _)
sweep_run(st, k, loss, criterion, max_transient) ==
    IF k > grid_len \/ st.ret # RetNone THEN st
    ELSE sweep_run(
             sweep_score(st, grid_damping(k), grid_loopbw(k),
                         loop(st.data, grid_damping(k), grid_loopbw(k),
                              max_transient),
                         loss, criterion),
             k + 1, loss, criterion, max_transient)

\* What optimize_loop leaves and returns: the dataset, the cache, what was
\* raised, the parameters returned, the candidates tried and the events.
loop_result(data, cache, ret, best_damping, best_loopbw, trace, events) ==
    [data |-> data, cache |-> cache, ret |-> ret,
     best_damping |-> best_damping, best_loopbw |-> best_loopbw,
     trace |-> trace, events |-> events]

\* The end of optimize_loop after the sweep st: the parameters found are
\* formatted as floats for the log, which raises TypeError while they are
\* None (no candidate's error was below inf); then they are saved with the
\* dataset's length and the criterion if a cache was given, and returned.
sweep_end(st, cache, cache_given, cache_id, criterion) ==
    IF st.ret # RetNone
    THEN loop_result(st.data, cache, st.ret, Absent, Absent, st.trace,
                     st.events)
    ELSE IF st.best_damping = Absent
    THEN loop_result(st.data, cache, "TypeError", Absent, Absent, st.trace,
                     st.events)
    ELSE loop_result(
             st.data,
             IF cache_given
             THEN cache_save(cache,
                             [n_samples |-> Len(st.data), error |-> criterion,
                              damping |-> st.best_damping,
                              loopbw |-> st.best_loopbw],
                             cache_id)
             ELSE cache,
             RetNone, st.best_damping, st.best_loopbw, st.trace,
             IF cache_given THEN Append(st.events, "save") ELSE st.events)

\* A plausible slip in optimize_loop: a cached configuration is reused for
\* the default loss only, any other loss sweeps again.
optimize_loop_reuses_for_mse(data, cache, criterion, loss, cache_given, cache_id, force, max_transient) ==
    IF criterion \notin {"cumulative", "instantaneous"}
       \/ loss \notin {"mse", "max-error"}
    THEN loop_result(data, cache, AssertionError, Absent, Absent, <<>>, <<>>)
    ELSE IF /\ cache_given
            /\ cache_load(cache, cache_id) # NoCfg
            /\ ~force
            /\ loss = "mse"
            /\ is_cfg_loop_valid(data, cache_load(cache, cache_id), criterion)
    THEN loop_result(data, cache, RetNone,
                     cache_load(cache, cache_id).damping,
                     cache_load(cache, cache_id).loopbw, <<>>, <<"load">>)
    ELSE sweep_end(sweep_run(sweep_start(data, IF cache_given THEN <<"load">>
                                               ELSE <<>>),
                             1, loss, criterion, max_transient),
                   cache, cache_given, cache_id, criterion)

\* Estimator.optimize_loop: the assertions on criterion and loss; with a
\* cache, a configuration loaded for cache_id that is valid and not forced
\* is returned at once; otherwise the sweep.
optimize_loop(data, cache, criterion, loss, cache_given, cache_id, force, max_transient) ==
    IF criterion \notin {"cumulative", "instantaneous"}
       \/ loss \notin {"mse", "max-error"}
    THEN loop_result(data, cache, AssertionError, Absent, Absent, <<>>, <<>>)
    ELSE IF /\ cache_given
            /\ cache_load(cache, cache_id) # NoCfg
            /\ ~force
            /\ is_cfg_loop_valid(data, cache_load(cache, cache_id), criterion)
    THEN loop_result(data, cache, RetNone,
                     cache_load(cache, cache_id).damping,
                     cache_load(cache, cache_id).loopbw, <<>>, <<"load">>)
    ELSE sweep_end(sweep_run(sweep_start(data, IF cache_given THEN <<"load">>
                                               ELSE <<>>),
                             1, loss, criterion, max_transient),
                   cache, cache_given, cache_id, criterion)

---------------------------------------------------------------------------
(* Bounds and input sets *)

\* Number of TimeReg.add calls explored.
MaxAdds == 3

\* The delta_ns arguments explored: no change, one ns, a quarter of a second,
\* just below / exactly /
\* above one second.
AddDeltas == {0, 1, 250000000, 999999999, 1000000000, 1100000000}

\* Initial seconds and nanoseconds explored (random.randint(0, 1000) and
\* random.uniform(0, 1e9) in Rtc.__init__).
InitSecs == {0, 1000}
InitNs == {0, 1, 999999999}

\* Number of Rtc.update calls explored.
MaxUpdates == 3

\* The t_sim arguments explored, in ns: within the first period, around a
\* period boundary, a Sync period, around one second.
UpdateTimes == {0, 3, 8, 13, 62500000, 999999999, 1000000003}

\* Initial phases explored (random.uniform(0, inc_val_ns)).
InitPhases == {0, 5}

\* Number of PtpEvt method calls explored.
MaxCalls == 4

\* The sim_time arguments explored, in ns.
MsgTimes == {0, 2000, 62500000}

\* The RTC timestamps handed to tx / rx, in ns.
Stamps == {100, 108}

\* The transmitter's RTC as read at a reception, in ns.
TxRtcStamps == {108, 116}

\* The draws of the Sync interval uncertainty (np.random.normal(0, 1500)), ns.
Uncertainties == {-1500, 0}

\* The draws of the one-way delay explored in MsgSpec, ns.
MsgDelays == {0, 2000}

\* The timestamps explored in DrrSpec, ns.
DrrStamps == {0, 12, 100000007}

\* The sequence numbers explored in DrrSpec.
DrrSeqNums == {0, 1}

\* Largest n_iter of run() explored.
MaxIter == 9

\* The draws of the one-way delay (np.random.gamma(shape=2, scale=1000))
\* explored in run(), ns: one too small to move the float time, a typical
\* one, one longer than the Sync period.
SimDelays == {0, 2000, 70000000}

\* The random initial (sec, ns, phase) of the master and slave RTCs explored.
SimRtcInits ==
    {<<Rtc("Master", 0, 0, 0), Rtc("Slave", 1000, 999999000, 5)>>,
     <<Rtc("Master", 7, 500, 3), Rtc("Slave", 0, 0, 0)>>}

\* Number of Estimator calls explored in EstSpec.
MaxEstOps == 3

\* A dataset record as the estimator finds it: the four timestamps of an
\* exchange with a one-way delay of 20 ns each way, the true offset x, the
\* two-way offset estimate x_est, and no derived key yet.
Rec(t1, x, x_est) ==
    [t1 |-> t1, t2 |-> t1 + x_est + 20, t3 |-> t1 + x_est + 21, t4 |-> t1 + 41,
     x |-> x, x_est |-> x_est,
     y_est |-> Absent, rtc_y |-> Absent, drift |-> Absent, x_loop |-> Absent]

\* The datasets explored, t1 strictly increasing in each: x_est = t1 / 2 on
\* unevenly spaced t1; a constant offset, estimate and truth; a noisy one;
\* a short one.
Datasets ==
    {<<Rec(2, 1, 1), Rec(4, 3, 2), Rec(8, 4, 4), Rec(10, 6, 5), Rec(14, 7, 7),
       Rec(16, 9, 8)>>,
     <<Rec(0, 5, 5), Rec(1, 5, 5), Rec(2, 5, 5), Rec(3, 5, 5), Rec(4, 5, 5),
       Rec(5, 5, 5)>>,
     <<Rec(0, 0, 0), Rec(1, 1, 0), Rec(2, 2, 0), Rec(3, 4, 1), Rec(4, 5, 5),
       Rec(5, 7, 3)>>,
     <<Rec(0, 1, 1), Rec(1, 2, 3), Rec(2, 4, 2)>>}

\* The windows an Estimator is constructed with.
EstDeltas == {1, 2, 3}

Strategies == {"one-way", "one-way-reversed", "two-way"}

\* The delta arguments of set_truth explored: None and a window.
TruthDeltas == {None, 2}

\* The (damping, loopbw) of loop explored: (0.5, 1.0) gives Kp = 2/3 and
\* Ki = 4/3, (1.0, 1.25) gives Kp = Ki = 1.
LoopCfgs == {<<Q(1, 2), Q(1, 1)>>, <<Q(1, 1), Q(5, 4)>>}

\* The settling fractions of loop explored: none, and the default 0.2.
Settlings == {Q(0, 1), Q(1, 5)}

Losses == {"mse", "max-error"}

\* The (loss, criterion, max_window_span) of optimize_to_drift explored.
DriftSearches ==
    {<<"mse", "cumulative", Q(1, 1)>>, <<"max-error", "instantaneous", Q(1, 1)>>,
     <<"mse", "instantaneous", Q(1, 2)>>, <<"max-error", "cumulative", Q(1, 2)>>}

\* The max_window_span fractions explored: the whole dataset, half of it.
WindowSpans == {Q(1, 1), Q(1, 2)}

\* Number of calls explored in LoopSpec.
MaxLoopOps == 3

\* The datasets of LoopSpec: a noisy one of five records, a constant one of
\* five, and one of four.
LoopDatasets ==
    {<<Rec(0, 0, 0), Rec(1, 1, 0), Rec(2, 2, 1), Rec(3, 4, 5), Rec(4, 5, 3)>>,
     <<Rec(0, 5, 5), Rec(1, 5, 5), Rec(2, 5, 5), Rec(3, 5, 5), Rec(4, 5, 5)>>,
     <<Rec(0, 1, 1), Rec(1, 2, 3), Rec(2, 4, 2), Rec(3, 5, 4)>>}

\* The cache identifiers explored: the default and another.
CacheIds == {"loop", "alt"}

\* The (criterion, loss, cache given, cache_id, force, max_transient) of
\* optimize_loop explored: the defaults with a cache; the other criterion;
\* forced; another identifier, loss and transient; no cache; a transient
\* that takes the whole dataset; an unknown loss.
LoopCalls ==
    {<<"cumulative", "mse", TRUE, "loop", FALSE, Q(1, 5)>>,
     <<"instantaneous", "mse", TRUE, "loop", FALSE, Q(1, 5)>>,
     <<"cumulative", "mse", TRUE, "loop", TRUE, Q(1, 5)>>,
     <<"instantaneous", "max-error", TRUE, "alt", FALSE, Q(1, 2)>>,
     <<"instantaneous", "mse", FALSE, "loop", FALSE, Q(1, 5)>>,
     <<"instantaneous", "max-error", TRUE, "loop", FALSE, Q(1, 1)>>,
     <<"cumulative", "mae", TRUE, "loop", FALSE, Q(1, 5)>>}

---------------------------------------------------------------------------
(* RegSpec: a TimeReg under a sequence of add calls with deltas >= 0 *)

RegIdle == /\ reg = TimeReg(0, 0) /\ regInit = TimeReg(0, 0) /\ regDeltas = <<>>
RtcIdle == /\ rtc = Rtc("Rtc", 0, 0, 0) /\ rtcArgs = <<>>
MsgIdle == /\ msg = [cls |-> "none"] /\ mevts = <<>> /\ call = [op |-> "none"] /\ mlog = <<>>
SimIdle == /\ sim = [pc |-> "none"] /\ simB = [pc |-> "none"]
DrrIdle == /\ drr = [seq_num |-> None] /\ results = [ret |-> RetNone]
EstOff == est = [op |-> "none"]
OptOff == opt = [op |-> "none"]
EstIdle == EstOff /\ OptOff

RegInit ==
    /\ \E s \in InitSecs, n \in InitNs :
          /\ reg = TimeReg(s, n)
          /\ regInit = TimeReg(s, n)
    /\ regDeltas = <<>>
    /\ RtcIdle /\ MsgIdle /\ SimIdle /\ DrrIdle /\ EstIdle

Add(delta_ns) ==
    /\ Len(regDeltas) < MaxAdds
    /\ reg' = add(reg, delta_ns)
    /\ regDeltas' = Append(regDeltas, delta_ns)
    /\ UNCHANGED <<regInit, rtcVars, msgVars, simVars, drrVars, estVars>>

RegNext == \E d \in AddDeltas : Add(d)

RegSpec == RegInit /\ [][RegNext]_vars

---------------------------------------------------------------------------
(* RtcSpec: an Rtc under a sequence of update calls *)

RtcInit ==
    /\ \E s \in InitSecs, n \in InitNs, p \in InitPhases : rtc = Rtc("Rtc", s, n, p)
    /\ rtcArgs = <<>>
    /\ RegIdle /\ MsgIdle /\ SimIdle /\ DrrIdle /\ EstIdle

Update(t_sim_ns) ==
    /\ Len(rtcArgs) < MaxUpdates
    /\ rtc' = update(rtc, t_sim_ns)
    /\ rtcArgs' = Append(rtcArgs, t_sim_ns)
    /\ UNCHANGED <<regVars, msgVars, simVars, drrVars, estVars>>

RtcNext == \E t \in UpdateTimes : Update(t)

RtcSpec == RtcInit /\ [][RtcNext]_vars

---------------------------------------------------------------------------
(* MsgSpec: one PtpEvt object (of either class, periodic or not) under any *)
(* sequence of tx / rx / sched_tx calls                                    *)

\* The record of a method call: the method, its arguments, what it returned,
\* and the message and heap it was called on.
Call(op, sim_time, stamp, ret) ==
    [op |-> op, sim_time |-> sim_time, stamp |-> stamp, ret |-> ret,
     tx_rtc |-> None, pre |-> msg, preEvts |-> mevts, n |-> call.n + 1]

\* A periodic message starts with next_tx = 0, as run() sets it for Sync.
MsgInit ==
    /\ msg \in {[PtpEvt("Sync", SyncPeriod) EXCEPT !.next_tx = 0],
                PtpEvt("Delay_Req", None),
                [SimPtpEvt("Sync", SyncPeriod) EXCEPT !.next_tx = 0],
                SimPtpEvt("Delay_Req", None)}
    /\ mevts = <<>>
    /\ call = [op |-> "none", n |-> 0]
    /\ mlog = <<>>
    /\ RegIdle /\ RtcIdle /\ SimIdle /\ DrrIdle /\ EstIdle

\* The log of successful transitions after a call.
Logged(op, fired) == IF fired THEN Append(mlog, op) ELSE mlog

\* A call is made while fewer than MaxCalls have been; nothing else moves.
MsgFrame == call.n < MaxCalls /\ UNCHANGED <<regVars, rtcVars, simVars, drrVars, estVars>>

CallTx ==
    /\ msg.cls = "messages" /\ MsgFrame
    /\ \E t \in MsgTimes, ts \in Stamps, u \in Uncertainties, d \in MsgDelays :
          LET r == tx(msg, t, ts, mevts, u, d)
          IN  /\ msg' = r.msg
              /\ mevts' = r.evts
              /\ call' = Call("tx", t, ts, r.ret)
              /\ mlog' = Logged("tx", r.ret = RetTrue)

\* The receiver's RTC and the transmitter's RTC are read at the reception.
CallRx ==
    /\ msg.cls = "messages" /\ MsgFrame
    /\ \E t \in MsgTimes, ts \in Stamps, tx_rtc \in TxRtcStamps :
          LET r == rx(msg, t, ts, tx_rtc)
          IN  /\ msg' = r.msg
              /\ mevts' = mevts
              /\ call' = [Call("rx", t, ts, r.ret) EXCEPT !.tx_rtc = tx_rtc]
              /\ mlog' = Logged("rx", r.ret = RetTrue)

CallSchedTx ==
    /\ msg.cls = "messages" /\ MsgFrame
    /\ \E t \in MsgTimes :
          LET r == sched_tx(msg, t, mevts)
          IN  /\ msg' = r.msg
              /\ mevts' = r.evts
              /\ call' = Call("sched_tx", t, None, r.ret)
              /\ mlog' = mlog

\* ptp_simulator.py's tx returns None in both cases: whether it transmitted
\* is read off the message.
CallSimTx ==
    /\ msg.cls = "simulator" /\ MsgFrame
    /\ \E t \in MsgTimes, ts \in Stamps, d \in MsgDelays :
          LET r == sim_tx(msg, t, ts, mevts, d)
          IN  /\ msg' = r.msg
              /\ mevts' = r.evts
              /\ call' = Call("tx", t, ts, r.ret)
              /\ mlog' = Logged("tx", r.msg.seq_num # msg.seq_num)

CallSimRx ==
    /\ msg.cls = "simulator" /\ MsgFrame
    /\ \E t \in MsgTimes, ts \in Stamps :
          LET r == sim_rx(msg, t, ts)
          IN  /\ msg' = r.msg
              /\ mevts' = mevts
              /\ call' = Call("rx", t, ts, r.ret)
              /\ mlog' = Logged("rx", r.ret = RetTrue)

CallSimSchedTx ==
    /\ msg.cls = "simulator" /\ MsgFrame
    /\ \E t \in MsgTimes :
          LET r == sim_sched_tx(msg, t, mevts)
          IN  /\ msg' = r.msg
              /\ mevts' = r.evts
              /\ call' = Call("sched_tx", t, None, r.ret)
              /\ mlog' = mlog

MsgNext == \/ CallTx \/ CallRx \/ CallSchedTx
           \/ CallSimTx \/ CallSimRx \/ CallSimSchedTx

MsgSpec == MsgInit /\ [][MsgNext]_vars

---------------------------------------------------------------------------
(* Spec: run(n_iter, sim_t_step), one step of the loop body at a time *)

Init ==
    /\ \E n \in 1..MaxIter, c \in SimRtcInits :
          sim = run_start(n, SimTStep, c[1], c[2])
    /\ simB = [pc |-> "none"]
    /\ RegIdle /\ RtcIdle /\ MsgIdle /\ DrrIdle /\ EstIdle

Idle == UNCHANGED <<regVars, rtcVars, msgVars, simB, drrVars, estVars>>

UpdateRtcs == sim.pc = "update" /\ sim' = run_update_rtcs(sim) /\ Idle

SyncTx == /\ sim.pc = "sync_tx"
          /\ \E d \in SimDelays : sim' = run_sync_tx(sim, d)
          /\ Idle

SyncRx == sim.pc = "sync_rx" /\ sim' = run_sync_rx(sim) /\ Idle

DreqTx == /\ sim.pc = "dreq_tx"
          /\ \E d \in SimDelays : sim' = run_dreq_tx(sim, d)
          /\ Idle

DreqRx == sim.pc = "dreq_rx" /\ sim' = run_dreq_rx(sim) /\ Idle

SchedDreq == sim.pc = "sched" /\ sim' = run_sched(sim) /\ Idle

Advance == sim.pc = "advance" /\ sim' \in run_advance(sim) /\ Idle

Next == \/ UpdateRtcs \/ SyncTx \/ SyncRx \/ DreqTx \/ DreqRx
        \/ SchedDreq \/ Advance

Spec == Init /\ [][Next]_vars

---------------------------------------------------------------------------
(* LiveSpec: the loop of run() for as long as it keeps running, the times  *)
(* taken relative to the simulation time of the tick                       *)

\* The draws of the one-way delay explored in LiveSpec, ns: one too small to
\* move the float time, one shorter and one longer than the Sync period.
LiveDelays == {0, 25000000, 70000000}

LiveInit ==
    /\ \E c \in SimRtcInits : sim = run_start(1, SimTStep, c[1], c[2])
    /\ simB = [pc |-> "none"]
    /\ RegIdle /\ RtcIdle /\ MsgIdle /\ DrrIdle /\ EstIdle

LiveSyncTx == /\ sim.pc = "sync_tx"
              /\ \E d \in LiveDelays : sim' = run_sync_tx(sim, d)
              /\ Idle

LiveDreqTx == /\ sim.pc = "dreq_tx"
              /\ \E d \in LiveDelays : sim' = run_dreq_tx(sim, d)
              /\ Idle

\* A Delay_Req transmission attempt whose delay, if one is drawn, moves the
\* time.
LiveDreqTxDelayed ==
    /\ sim.pc = "dreq_tx"
    /\ \E d \in LiveDelays \ {0} : sim' = run_dreq_tx(sim, d)
    /\ Idle

LiveAdvance == sim.pc = "advance" /\ sim' \in run_advance_on(sim) /\ Idle

LiveNext == \/ UpdateRtcs \/ LiveSyncTx \/ SyncRx \/ LiveDreqTx \/ DreqRx
            \/ SchedDreq \/ LiveAdvance

\* The loop takes its next step while it runs; the delays are independent
\* random draws, so among infinitely many Delay_Req transmissions some draw a
\* delay that moves the time.
LiveSpec ==
    LiveInit /\ [][LiveNext]_vars /\ WF_vars(LiveNext) /\ SF_vars(LiveDreqTxDelayed)

---------------------------------------------------------------------------
(* DetSpec: two runs of run() with the same parameters, the same initial   *)
(* RTCs and the same draws, each popping its own heap                      *)

DetInit ==
    /\ \E n \in 1..MaxIter, c \in SimRtcInits :
          /\ sim = run_start(n, SimTStep, c[1], c[2])
          /\ simB = run_start(n, SimTStep, c[1], c[2])
    /\ RegIdle /\ RtcIdle /\ MsgIdle /\ DrrIdle /\ EstIdle

\* Both runs take their next step, with the same delay drawn in both.
DetStep ==
    /\ \E d \in SimDelays :
          /\ sim' \in run_step(sim, d)
          /\ simB' \in run_step(simB, d)
    /\ UNCHANGED <<regVars, rtcVars, msgVars, drrVars, estVars>>

DetNext == DetStep

DetSpec == DetInit /\ [][DetNext]_vars

---------------------------------------------------------------------------
(* DrrSpec: a DelayReqResp object under any sequence of its setters and of *)
(* process()                                                               *)

DrrInit ==
    /\ \E q \in DrrSeqNums, t \in DrrStamps : drr = DelayReqResp(q, t)
    /\ results = [ret |-> RetNone]
    /\ RegIdle /\ RtcIdle /\ MsgIdle /\ SimIdle /\ EstIdle

DrrFrame == UNCHANGED <<regVars, rtcVars, msgVars, simVars, estVars>>

NewExchange(seq_num, t1) ==
    /\ drr' = DelayReqResp(seq_num, t1)
    /\ results' = [ret |-> RetNone]
    /\ DrrFrame

SetT2(seq_num, t) ==
    /\ drr' = set_t2(drr, seq_num, t).obj
    /\ results' = [results EXCEPT !.ret = set_t2(drr, seq_num, t).ret]
    /\ DrrFrame

SetT3(seq_num, t) ==
    /\ drr' = set_t3(drr, seq_num, t).obj
    /\ results' = [results EXCEPT !.ret = set_t3(drr, seq_num, t).ret]
    /\ DrrFrame

SetT4(seq_num, t) ==
    /\ drr' = set_t4(drr, seq_num, t).obj
    /\ results' = [results EXCEPT !.ret = set_t4(drr, seq_num, t).ret]
    /\ DrrFrame

Process ==
    /\ results' = process(drr)
    /\ drr' = drr
    /\ DrrFrame

DrrNext ==
    \/ \E q \in DrrSeqNums, t \in DrrStamps :
          \/ NewExchange(q, t)
          \/ SetT2(q, t)
          \/ SetT3(q, t)
          \/ SetT4(q, t)
    \/ Process

DrrSpec == DrrInit /\ [][DrrNext]_vars

---------------------------------------------------------------------------
(* EstSpec: an Estimator on a dataset under any sequence of its methods,   *)
(* and of new Estimators constructed on the same dataset                   *)

EstInit ==
    /\ \E d \in Datasets, n \in EstDeltas :
          est = [op |-> "Estimator", args |-> [delta |-> n],
                 data |-> Estimator(d, n).data, delta |-> Estimator(d, n).delta,
                 ret |-> Estimator(d, n).ret, trace |-> <<>>,
                 pre |-> d, predelta |-> n, rep |-> FALSE, n |-> 0]
    /\ RegIdle /\ RtcIdle /\ MsgIdle /\ SimIdle /\ DrrIdle /\ OptOff

\* The record of a call: the method, its arguments, the dataset and window
\* after it, what it raised, what a window search tried, the dataset and
\* window before it, and whether it repeats the call before it.
EstCall(op, args, data, delta, ret, trace) ==
    [op |-> op, args |-> args, data |-> data, delta |-> delta, ret |-> ret,
     trace |-> trace, pre |-> est.data, predelta |-> est.delta,
     rep |-> (est.op = op /\ est.args = args), n |-> est.n + 1]

EstFrame ==
    /\ est.n < MaxEstOps
    /\ UNCHANGED <<regVars, rtcVars, msgVars, simVars, drrVars, opt>>

NewEstimator ==
    /\ EstFrame
    /\ \E n \in EstDeltas :
          LET e == Estimator(est.data, n)
          IN  est' = EstCall("Estimator", [delta |-> n], e.data,
                             IF e.ret = RetNone THEN e.delta ELSE est.delta,
                             e.ret, <<>>)

EstProcess ==
    /\ EstFrame
    /\ \E s \in Strategies :
          LET r == est_process(est.data, est.delta, s)
          IN  est' = EstCall("process", [strategy |-> s], r.data, est.delta,
                             r.ret, <<>>)

EstSetTruth ==
    /\ EstFrame
    /\ \E d \in TruthDeltas :
          LET r == set_truth(est.data, est.delta, d)
          IN  est' = EstCall("set_truth", [delta |-> d], r.data, est.delta,
                             r.ret, <<>>)

EstimateDrift ==
    /\ EstFrame
    /\ est' = EstCall("estimate_drift", [none |-> 0], estimate_drift(est.data),
                      est.delta, RetNone, <<>>)

EstLoop ==
    /\ EstFrame
    /\ \E c \in LoopCfgs, s \in Settlings :
          est' = EstCall("loop",
                         [damping |-> c[1], loopbw |-> c[2], settling |-> s],
                         loop(est.data, c[1], c[2], s), est.delta, RetNone, <<>>)

EstOptimizeToY ==
    /\ EstFrame
    /\ \E l \in Losses, w \in WindowSpans :
          LET r == optimize_to_y(est, l, w)
          IN  est' = EstCall("optimize_to_y",
                             [loss |-> l, max_window_span |-> w],
                             r.data, r.delta, r.ret, r.trace)

EstOptimizeToDrift ==
    /\ EstFrame
    /\ \E a \in DriftSearches :
          LET r == optimize_to_drift(est, a[1], a[2], a[3])
          IN  est' = EstCall("optimize_to_drift",
                             [loss |-> a[1], criterion |-> a[2],
                              max_window_span |-> a[3]],
                             r.data, r.delta, r.ret, r.trace)

EstNext == \/ NewEstimator \/ EstProcess \/ EstSetTruth \/ EstimateDrift
           \/ EstLoop \/ EstOptimizeToY \/ EstOptimizeToDrift

EstSpec == EstInit /\ [][EstNext]_vars

---------------------------------------------------------------------------
(* CfgSpec: an Estimator under calls whose window, strategy, loss or       *)
(* criterion may be one the program does not know                          *)

\* The windows passed to the constructor and to set_truth in CfgSpec.
CfgDeltas == {-2, 0, 2}

\* The names passed in CfgSpec: a known one and an unknown one each.
CfgStrategies == {"two-way", "three-way"}
CfgLosses == {"mse", "mae"}
CfgCriteria == {"cumulative", "absolute"}

CfgNewEstimator ==
    /\ EstFrame
    /\ \E n \in CfgDeltas :
          LET e == Estimator(est.data, n)
          IN  est' = EstCall("Estimator", [delta |-> n], e.data,
                             IF e.ret = RetNone THEN e.delta ELSE est.delta,
                             e.ret, <<>>)

CfgProcess ==
    /\ EstFrame
    /\ \E s \in CfgStrategies :
          LET r == est_process(est.data, est.delta, s)
          IN  est' = EstCall("process", [strategy |-> s], r.data, est.delta,
                             r.ret, <<>>)

CfgSetTruth ==
    /\ EstFrame
    /\ \E d \in CfgDeltas :
          LET r == set_truth(est.data, est.delta, d)
          IN  est' = EstCall("set_truth", [delta |-> d], r.data, est.delta,
                             r.ret, <<>>)

CfgOptimizeToY ==
    /\ EstFrame
    /\ \E l \in CfgLosses :
          LET r == optimize_to_y(est, l, Q(1, 2))
          IN  est' = EstCall("optimize_to_y",
                             [loss |-> l, max_window_span |-> Q(1, 2)],
                             r.data, r.delta, r.ret, r.trace)

CfgOptimizeToDrift ==
    /\ EstFrame
    /\ \E l \in CfgLosses, c \in CfgCriteria :
          LET r == optimize_to_drift(est, l, c, Q(1, 2))
          IN  est' = EstCall("optimize_to_drift",
                             [loss |-> l, criterion |-> c,
                              max_window_span |-> Q(1, 2)],
                             r.data, r.delta, r.ret, r.trace)

CfgEvalDriftErr ==
    /\ EstFrame
    /\ \E l \in CfgLosses, c \in CfgCriteria :
          est' = EstCall("_eval_drift_err", [loss |-> l, criterion |-> c],
                         est.data, est.delta,
                         eval_drift_err(est.data, l, c, 0, EvalN).ret, <<>>)

CfgNext == \/ CfgNewEstimator \/ CfgProcess \/ CfgSetTruth \/ CfgOptimizeToY
           \/ CfgOptimizeToDrift \/ CfgEvalDriftErr

CfgSpec == EstInit /\ [][CfgNext]_vars

---------------------------------------------------------------------------
(* LoopSpec: an Estimator and a cache under any sequence of optimize_loop  *)
(* calls, and of new Estimators constructed on another dataset with the    *)
(* same cache                                                              *)

LoopInit ==
    /\ \E d \in LoopDatasets :
          opt = [op |-> "Estimator", args |-> <<>>, data |-> d,
                 cache |-> [id \in CacheIds |-> NoCfg], ret |-> RetNone,
                 best_damping |-> Absent, best_loopbw |-> Absent,
                 trace |-> <<>>, events |-> <<>>, delta |-> 1, pre |-> d,
                 precache |-> [id \in CacheIds |-> NoCfg], prev |-> <<>>,
                 n |-> 0]
    /\ RegIdle /\ RtcIdle /\ MsgIdle /\ SimIdle /\ DrrIdle /\ EstOff

LoopFrame ==
    /\ opt.n < MaxLoopOps
    /\ UNCHANGED <<regVars, rtcVars, msgVars, simVars, drrVars, est>>

\* The record of a call: the method, its arguments, what it left and
\* returned (r), the dataset and the cache before it, and the call before
\* it with what that call returned.
LoopCall(op, args, r) ==
    [op |-> op, args |-> args, data |-> r.data, cache |-> r.cache,
     ret |-> r.ret, best_damping |-> r.best_damping,
     best_loopbw |-> r.best_loopbw, trace |-> r.trace, events |-> r.events,
     delta |-> opt.delta, pre |-> opt.data, precache |-> opt.cache,
     prev |-> <<[op |-> opt.op, args |-> opt.args, ret |-> opt.ret,
                 best_damping |-> opt.best_damping,
                 best_loopbw |-> opt.best_loopbw, trace |-> opt.trace]>>,
     n |-> opt.n + 1]

LoopNewEstimator ==
    /\ LoopFrame
    /\ \E d \in LoopDatasets :
          opt' = [LoopCall("Estimator", <<>>,
                           loop_result(d, opt.cache, RetNone, Absent, Absent,
                                       <<>>, <<>>))
                  EXCEPT !.delta = 1]

LoopOptimize ==
    /\ LoopFrame
    /\ \E a \in LoopCalls :
          opt' = LoopCall("optimize_loop", a,
                          optimize_loop(opt.data, opt.cache, a[1], a[2], a[3],
                                        a[4], a[5], a[6]))

\* The (loss, criterion, max_window_span) of optimize_to_drift explored in
\* LoopSpec.
LoopDriftSearches ==
    {<<"mse", "cumulative", Q(1, 1)>>, <<"max-error", "instantaneous", Q(1, 2)>>}

\* The window searches on the same Estimator; they do not touch the cache.
LoopOptimizeToY ==
    /\ LoopFrame
    /\ \E w \in WindowSpans :
          LET r == optimize_to_y([data |-> opt.data, delta |-> opt.delta],
                                 "mse", w)
          IN  opt' = [LoopCall("optimize_to_y", <<"mse", w>>,
                               loop_result(r.data, opt.cache, r.ret, Absent,
                                           Absent, r.trace, <<>>))
                      EXCEPT !.delta = r.delta]

LoopOptimizeToDrift ==
    /\ LoopFrame
    /\ \E a \in LoopDriftSearches :
          LET r == optimize_to_drift([data |-> opt.data, delta |-> opt.delta],
                                     a[1], a[2], a[3])
          IN  opt' = [LoopCall("optimize_to_drift", a,
                               loop_result(r.data, opt.cache, r.ret, Absent,
                                           Absent, r.trace, <<>>))
                      EXCEPT !.delta = r.delta]

LoopNext == \/ LoopNewEstimator \/ LoopOptimize
            \/ LoopOptimizeToY \/ LoopOptimizeToDrift

LoopSpec == LoopInit /\ [][LoopNext]_vars

---------------------------------------------------------------------------
(* C1 *)

\* C1: a tx call transmits (on_way rises, the RTC timestamp is taken, the
\* sequence number advances, an event is pushed) iff sim_time >= next_tx,
\* with a next_tx set, and no message is on its way; a call that does not
\* transmit returns a false value (False in ptp/messages.py, None in
\* ptp_simulator.py), leaves on_way, next_tx, next_rx, seq_num and tx_tstamp
\* as they were and pushes no event.
C1_TxFiresIff ==
    call.op = "tx" =>
        LET pre == call.pre
            due == /\ pre.next_tx # None
                   /\ call.sim_time >= pre.next_tx
                   /\ ~pre.on_way
            performed ==
                   /\ ~pre.on_way /\ msg.on_way
                   /\ msg.tx_tstamp = call.stamp
                   /\ msg.seq_num = (IF pre.seq_num = None THEN 0
                                     ELSE pre.seq_num + 1)
                   /\ Len(mevts) > Len(call.preEvts)
        IN  /\ due <=> performed
            /\ ~due =>
                   /\ call.ret \in {RetFalse, RetNone}
                   /\ msg.cls = "messages" => call.ret = RetFalse
                   /\ msg.on_way = pre.on_way
                   /\ msg.next_tx = pre.next_tx
                   /\ msg.next_rx = pre.next_rx
                   /\ msg.seq_num = pre.seq_num
                   /\ msg.tx_tstamp = pre.tx_tstamp
                   /\ mevts = call.preEvts

\* A tx call at a due time that is refused because the previous message is
\* still on its way.
C1_Witness ==
    /\ call.op = "tx"
    /\ call.pre.on_way
    /\ call.pre.next_tx # None /\ call.sim_time >= call.pre.next_tx
    /\ call.ret = RetFalse
    /\ Len(mlog) >= 1

---------------------------------------------------------------------------
(* C2 *)

\* C2: an rx call receives (on_way falls, the RTC timestamp is taken, True
\* is returned) iff sim_time >= next_rx and a message is on its way; a call
\* that does not receive returns False and leaves on_way, rx_tstamp and
\* one_way_delay as they were.
C2_RxFiresIff ==
    call.op = "rx" =>
        LET pre == call.pre
            due == call.sim_time >= pre.next_rx /\ pre.on_way
            performed ==
                   /\ pre.on_way /\ ~msg.on_way
                   /\ msg.rx_tstamp = call.stamp
                   /\ call.ret = RetTrue
        IN  /\ due <=> performed
            /\ ~due =>
                   /\ call.ret = RetFalse
                   /\ msg.on_way = pre.on_way
                   /\ msg.rx_tstamp = pre.rx_tstamp
                   /\ msg.one_way_delay = pre.one_way_delay

\* An rx call refused because it comes before next_rx, with a message on
\* its way.
C2_Witness ==
    /\ call.op = "rx"
    /\ call.pre.on_way
    /\ call.sim_time < call.pre.next_rx
    /\ call.ret = RetFalse

---------------------------------------------------------------------------
(* C3 *)

\* C3: the successful transitions alternate tx, rx, tx, ... starting with
\* tx, and on_way holds exactly when the last successful transition is a tx.
C3_OnWayBetweenTxRx ==
    /\ \A i \in DOMAIN mlog : mlog[i] = (IF i % 2 = 1 THEN "tx" ELSE "rx")
    /\ msg.on_way <=> (Len(mlog) % 2 = 1)

\* A second message of a type transmitted and received after the first.
C3_Witness ==
    /\ Len(mlog) = 4
    /\ ~msg.on_way
    /\ msg.name = "Sync"
    /\ msg.seq_num = 1

---------------------------------------------------------------------------
(* C4 *)

\* The four transitions of a tick, in the order of the loop body.
TickOrder == <<"Sync-tx", "Sync-rx", "Delay_Req-tx", "Delay_Req-rx">>

\* The number of transitions tried in the current tick, by position.
TriedAt(pc) == CASE pc = "sync_tx" -> 0
                 [] pc = "sync_rx" -> 1
                 [] pc = "dreq_tx" -> 2
                 [] pc = "dreq_rx" -> 3
                 [] OTHER          -> 4

\* C4: whenever a transition is about to be tried or has been tried in a
\* tick, both RTCs have been updated to the tick's simulation time and the
\* transitions tried so far are Sync-tx, Sync-rx, Delay_Req-tx, Delay_Req-rx
\* in this order; the next tick's time is the earliest pending event time,
\* or the current time plus the step when no event is pending.
C4_TickOrder ==
    /\ [](sim.pc \in {"sync_tx", "sync_rx", "dreq_tx", "dreq_rx", "sched"}
            => /\ sim.m_upd = sim.sim_time
               /\ sim.s_upd = sim.sim_time
               /\ sim.tried = SubSeq(TickOrder, 1, TriedAt(sim.pc)))
    /\ [][sim.pc = "advance" =>
            IF sim.evts = <<>>
            THEN sim'.sim_time = sim.sim_time + sim.t_step
            ELSE /\ \E i \in DOMAIN sim.evts : sim'.sim_time = sim.evts[i]
                 /\ \A i \in DOMAIN sim.evts : sim'.sim_time <= sim.evts[i]]_vars

\* The end of a tick later than the first Sync period, all four transitions
\* tried, with events pending.
C4_Witness ==
    /\ sim.pc = "sched"
    /\ sim.tried = TickOrder
    /\ sim.sim_time > SyncPeriod
    /\ Len(sim.evts) >= 2

---------------------------------------------------------------------------
(* C5 *)

\* C5: at the end of a tick in which the Sync was received at time T the
\* Delay_Req has next_tx = T and T is on the heap; and a Delay_Req so
\* scheduled while none was on its way is transmitted in the very next tick,
\* at simulation time T: until then the simulation time stays T.
C5_DreqScheduledAtSyncRx ==
    /\ (sim.pc = "advance" /\ sim.sync_received = RetTrue)
          => /\ sim.dreq.next_tx = sim.sim_time
             /\ \E i \in DOMAIN sim.evts : sim.evts[i] = sim.sim_time
    /\ sim.pend.set
          => /\ sim.sim_time = sim.pend.t
             /\ sim.i_msg = sim.pend.tick + 1
             /\ sim.pc \in {"advance", "update", "sync_tx", "sync_rx",
                            "dreq_tx", "done"}

\* A Delay_Req transmitted at the time T of the Sync reception that
\* scheduled it, in the tick after that reception.
C5_Witness ==
    /\ sim.pc = "dreq_rx"
    /\ sim.sim_time > 0
    /\ ~sim.pend.set /\ sim.pend.t = sim.sim_time
    /\ sim.i_msg = sim.pend.tick + 1
    /\ Len(sim.log) >= 2
    /\ sim.log[Len(sim.log)] = <<"Delay_Req-tx", sim.sim_time>>
    /\ sim.log[Len(sim.log) - 1] = <<"Sync-rx", sim.sim_time>>

---------------------------------------------------------------------------
(* C6 *)

\* C6: when run(n_iter) has stopped, exactly n_iter exchanges have been
\* completed (a Delay_Req received for each).
C6_ExactlyNExchanges ==
    sim.pc = "done" => sim.n_exch = sim.n_iter

---------------------------------------------------------------------------
(* C7 *)

\* The entries of a heap with their multiplicities.
HeapBag(evts) ==
    [t \in {evts[i] : i \in DOMAIN evts} |->
        Cardinality({i \in DOMAIN evts : evts[i] = t})]

\* What a run shows: everything but the arrangement of its heap.
Observed(s) == [s EXCEPT !.evts = HeapBag(s.evts)]

---------------------------------------------------------------------------
(* C10 *)

\* The fraction q is the integer n.
IsInt(q, n) == q.num = n * q.den

\* Sum and difference of two fractions.
FracSum(p, q) == Over(p.num * q.den + q.num * p.den, p.den * q.den)
FracDiff(p, q) == Over(p.num * q.den - q.num * p.den, p.den * q.den)

\* C10: the metrics process() returns hold d_est = ((t4-t1) - (t3-t2)) / 2
\* and x_est = ((t2-t1) - (t4-t3)) / 2 of the object's timestamps, signed,
\* so that d_est + x_est = t2 - t1 and d_est - x_est = t4 - t3.
C10_DelayOffsetEstimates ==
    results.ret = "dict" =>
        /\ results.d_est =
              Over((results.t4 - results.t1) - (results.t3 - results.t2), 2)
        /\ results.x_est =
              Over((results.t2 - results.t1) - (results.t4 - results.t3), 2)
        /\ IsInt(FracSum(results.d_est, results.x_est),
                 results.t2 - results.t1)
        /\ IsInt(FracDiff(results.d_est, results.x_est),
                 results.t4 - results.t3)

\* Metrics of an exchange in which the slave clock is behind the master's:
\* a negative offset estimate, with a positive delay estimate.
C10_Witness ==
    /\ results.ret = "dict"
    /\ results.x_est.num < 0
    /\ results.d_est.num > 0
    /\ results.t1 # results.t2 /\ results.t3 # results.t4

---------------------------------------------------------------------------
(* C8 *)

\* The canonical (sec, ns) form of sec seconds plus ns >= 0 nanoseconds, by
\* repeated subtraction.
RECURSIVE Canon(_, _)
Canon(sec, ns) == IF ns >= NsPerSec THEN Canon(sec + 1, ns - NsPerSec)
                  ELSE [sec |-> sec, ns |-> ns]

\* The initial total plus the first k deltas, in canonical form.  The totals
\* in ns exceed 32-bit integers, so they are compared in canonical
\* form: two pairs with 0 <= ns < 1e9 have the same total iff they are equal.
RECURSIVE TotalAfter(_)
TotalAfter(k) ==
    IF k = 0 THEN Canon(regInit.sec, regInit.ns)
    ELSE LET t == TotalAfter(k - 1)
         IN  Canon(t.sec, t.ns + regDeltas[k])

\* C8: after any sequence of add calls with non-negative deltas the
\* nanoseconds are in [0, 1e9), the seconds are not negative, and
\* sec*1e9 + ns is the initial total plus the sum of the deltas.
C8_AddNormalized ==
    /\ 0 <= reg.ns /\ reg.ns < NsPerSec
    /\ reg.sec >= 0
    /\ add_asserts(reg)
    /\ reg = TotalAfter(Len(regDeltas))

\* A run of adds in which the nanoseconds overflowed: the seconds advanced
\* by more than one on a single register that started just below a second.
C8_Witness ==
    /\ Len(regDeltas) = MaxAdds
    /\ regInit.ns = 999999999
    /\ regDeltas[1] = 1100000000
    /\ reg.sec >= regInit.sec + 3

---------------------------------------------------------------------------
(* C9 *)

\* C9: an update whose t_sim is not below the previous call's leaves neither
\* the RTC time (lexicographic) nor the increment count lower than before.
C9_RtcMonotonic ==
    [][(/\ rtcArgs' # rtcArgs
        /\ (rtcArgs # <<>> => rtcArgs'[Len(rtcArgs')] >= rtcArgs[Len(rtcArgs)]))
       => /\ TimeLeq(rtc.time, rtc'.time)
          /\ rtc'.inc_cnt >= rtc.inc_cnt]_vars

\* Three updates at increasing times, the last one carrying the RTC time
\* into the next second.
C9_Witness ==
    /\ Len(rtcArgs) = 3
    /\ rtcArgs[1] < rtcArgs[2] /\ rtcArgs[2] < rtcArgs[3]
    /\ rtc.inc_cnt > 0
    /\ rtc.time.sec > 0 /\ rtc.time.sec # 1000

---------------------------------------------------------------------------
(* C11 *)

\* The frequency offset over the window from record lo to record hi, as the
\* strategy defines it.
WindowQuotient(data, strategy, lo, hi) ==
    LET d(key) == At(data, hi)[key] - At(data, lo)[key]
    IN  CASE strategy = "two-way" -> Q(d("x_est"), d("t1"))
          [] strategy = "one-way" -> Q(d("t2") - d("t1"), d("t1"))
          [] strategy = "one-way-reversed" -> Q(d("t3") - d("t4"), d("t4"))

\* C11: after process() with window delta, whatever the dataset held before,
\* record i has y_est iff i >= delta, and the y_est of record i is the
\* estimate over the window that ends at i, from record i - delta to i.
C11_YEstFromDelta ==
    (est.op = "process" /\ est.ret = RetNone) =>
        \A i \in Idx(est.data) :
            /\ Has(At(est.data, i), "y_est") <=> i >= est.delta
            /\ i >= est.delta =>
                   At(est.data, i).y_est =
                       WindowQuotient(est.data, est.args.strategy,
                                      i - est.delta, i)

\* process() has run on a dataset whose record before the window's end
\* held a y_est left by a run with a smaller window.
C11_Witness ==
    /\ est.op = "process" /\ est.ret = RetNone
    /\ \E i \in Idx(est.pre) : i < est.delta /\ Has(At(est.pre, i), "y_est")
    /\ \E i \in Idx(est.data) : Has(At(est.data, i), "y_est")

---------------------------------------------------------------------------
(* C12 *)

\* C12: a process(), estimate_drift(), set_truth(delta) or loop(damping,
\* loopbw, settling) call that repeats the call before it, with the same
\* arguments, leaves the dataset as the first call left it.
C12_Idempotent ==
    (est.rep /\ est.op \in {"process", "estimate_drift", "set_truth", "loop"})
        => est.data = est.pre

\* loop() has run twice in a row, with the same arguments, on a dataset that
\* held frequency estimates before, and has published a drift that is not 0.
C12_Witness ==
    /\ est.rep /\ est.op = "loop" /\ est.n = 3
    /\ \E i \in Idx(est.data) : Has(At(est.data, i), "y_est")
    /\ \E i \in Idx(est.data) :
          Has(At(est.data, i), "drift") /\ At(est.data, i).drift # QInt(0)

---------------------------------------------------------------------------
(* C13 *)

\* t1 is strictly increasing along the dataset.
Increasing(data) ==
    \A i \in Idx(data) : i >= 1 => At(data, i - 1).t1 < At(data, i).t1

\* x_est = c * t1 on every record, for one c.
Proportional(data) ==
    \A i, j \in Idx(data) :
        At(data, i).x_est * At(data, j).t1 = At(data, j).x_est * At(data, i).t1

---------------------------------------------------------------------------
(* C14 *)

\* C14 as stated: the two-way y_est of record i >= delta is
\* (Dq - Dt1) / Dt1, Dq the windowed difference of x_est and Dt1 that of t1.
C14_TwoWayMinusMaster ==
    (/\ est.op = "process" /\ est.ret = RetNone
     /\ est.args.strategy = "two-way") =>
        \A i \in Idx(est.data) : i >= est.delta =>
            LET Dq  == At(est.data, i).x_est - At(est.data, i - est.delta).x_est
                Dt1 == At(est.data, i).t1 - At(est.data, i - est.delta).t1
            IN  At(est.data, i).y_est = Q(Dq - Dt1, Dt1)

\* C14, amended: the two-way y_est of record i >= delta is Dq / Dt1, the
\* windowed difference of x_est over that of t1 (x_est is an offset already:
\* the master's interval is not subtracted from it).
C14_TwoWayQuotient ==
    (/\ est.op = "process" /\ est.ret = RetNone
     /\ est.args.strategy = "two-way") =>
        \A i \in Idx(est.data) : i >= est.delta =>
            LET Dq  == At(est.data, i).x_est - At(est.data, i - est.delta).x_est
                Dt1 == At(est.data, i).t1 - At(est.data, i - est.delta).t1
            IN  At(est.data, i).y_est = Q(Dq, Dt1)

\* Two-way process() has set a y_est from a windowed x_est difference and a
\* windowed t1 difference that are both positive and differ.
C14_Witness ==
    /\ est.op = "process" /\ est.ret = RetNone
    /\ est.args.strategy = "two-way"
    /\ \E i \in Idx(est.data) :
          /\ i >= est.delta
          /\ At(est.data, i).x_est - At(est.data, i - est.delta).x_est > 0
          /\ At(est.data, i).x_est - At(est.data, i - est.delta).x_est
                 # At(est.data, i).t1 - At(est.data, i - est.delta).t1
          /\ QLt(QInt(0), At(est.data, i).y_est)

---------------------------------------------------------------------------
(* C15 *)

\* C15: after estimate_drift() record i has drift iff it has y_est, and then
\* drift = y_est * (t1[i] - t1[i-1]); a drift held before the call by a
\* record without y_est is gone.
C15_DriftIffYEst ==
    est.op = "estimate_drift" =>
        \A i \in Idx(est.data) :
            LET r == At(est.data, i)
            IN  /\ Has(r, "drift") <=> Has(r, "y_est")
                /\ Has(r, "drift") =>
                       /\ i >= 1
                       /\ r.drift =
                              QMul(r.y_est, QInt(r.t1 - At(est.data, i - 1).t1))

\* estimate_drift() has run on a dataset where a record without y_est held
\* a drift (of the PI loop), and has set a drift.
C15_Witness ==
    /\ est.op = "estimate_drift"
    /\ \E i \in Idx(est.pre) :
          Has(At(est.pre, i), "drift") /\ ~Has(At(est.pre, i), "y_est")
    /\ \E i \in Idx(est.data) : Has(At(est.data, i), "drift")

---------------------------------------------------------------------------
(* C16 *)

\* The dataset is as two-way process() with window delta followed by
\* estimate_drift() leaves it: y_est, the two-way quotient, and drift on
\* exactly the records from delta on.
TwoWayDrifts(data, delta) ==
    /\ delta >= 1
    /\ \A i \in Idx(data) :
          /\ Has(At(data, i), "y_est") <=> i >= delta
          /\ Has(At(data, i), "drift") <=> i >= delta
          /\ i >= delta =>
                 At(data, i).y_est = WindowQuotient(data, "two-way", i - delta, i)

\* The sum of drift over the records lo .. hi.
DriftSum(data, lo, hi) ==
    QSum([k \in 1..(hi - lo + 1) |-> At(data, lo + k - 1).drift])

\* C16 as stated: after two-way process() and estimate_drift(), for every i
\* with drift on all of i-delta+1 .. i, the drifts of these records sum to
\* x_est[i] - x_est[i-delta].
C16_Telescoping ==
    (/\ est.op = "estimate_drift" /\ Increasing(est.data)
     /\ TwoWayDrifts(est.data, est.delta)) =>
        \A i \in Idx(est.data) : i - est.delta + 1 >= est.delta =>
            DriftSum(est.data, i - est.delta + 1, i)
                = QInt(At(est.data, i).x_est - At(est.data, i - est.delta).x_est)

\* C16, amended: the drifts of i-delta+1 .. i sum to x_est[i] -
\* x_est[i-delta] where y_est is the same on all these records, as it is for
\* a window of 1 and wherever x_est is a straight line in t1; the sum is
\* that of y_est[j] * (t1[j] - t1[j-1]) otherwise.
C16_TelescopingConstY ==
    (/\ est.op = "estimate_drift" /\ Increasing(est.data)
     /\ TwoWayDrifts(est.data, est.delta)) =>
        \A i \in Idx(est.data) :
            (/\ i - est.delta + 1 >= est.delta
             /\ \A j \in (i - est.delta + 1)..i :
                    At(est.data, j).y_est = At(est.data, i).y_est) =>
                DriftSum(est.data, i - est.delta + 1, i)
                    = QInt(At(est.data, i).x_est
                           - At(est.data, i - est.delta).x_est)

\* estimate_drift() has run after two-way process() with a window of 2 on
\* unevenly spaced t1, and two records in a row with the same y_est hold
\* drifts that are not 0 and differ.
C16_Witness ==
    /\ est.op = "estimate_drift" /\ Increasing(est.data)
    /\ est.delta = 2 /\ TwoWayDrifts(est.data, est.delta)
    /\ \E i \in Idx(est.data) :
          /\ i >= 3
          /\ At(est.data, i - 1).y_est = At(est.data, i).y_est
          /\ At(est.data, i).drift # QInt(0)
          /\ At(est.data, i - 1).drift # At(est.data, i).drift

---------------------------------------------------------------------------
(* C17 *)

\* C17: if every record has the same x_est, every drift loop() publishes is
\* 0 and every x_loop it publishes is that x_est.
C17_ConstantInput ==
    (/\ est.op = "loop"
     /\ \A i \in Idx(est.data) : At(est.data, i).x_est = At(est.data, 0).x_est) =>
        \A i \in Idx(est.data) :
            /\ Has(At(est.data, i), "drift") => At(est.data, i).drift = QInt(0)
            /\ Has(At(est.data, i), "x_loop") =>
                   At(est.data, i).x_loop = QInt(At(est.data, 0).x_est)

\* loop() has run on a dataset whose x_est is the same everywhere and not 0,
\* and the last record holds what it published.
C17_Witness ==
    /\ est.op = "loop"
    /\ \A i \in Idx(est.data) : At(est.data, i).x_est = At(est.data, 0).x_est
    /\ At(est.data, 0).x_est # 0
    /\ Has(est.data[Len(est.data)], "drift")
    /\ Has(est.data[Len(est.data)], "x_loop")

---------------------------------------------------------------------------
(* C18 *)

\* C18: a loop() call whose analytic settling time 4 / (damping * loopbw)
\* exceeds half the number of records is rejected: it raises, and no record
\* holds a drift or an x_loop after it.
C18_LongSettlingRejected ==
    (/\ est.op = "loop"
     /\ QLt(Q(Len(est.data), 2),
            QDiv(QInt(4), QMul(est.args.damping, est.args.loopbw)))) =>
        /\ est.ret # RetNone
        /\ \A i \in Idx(est.data) :
               ~Has(At(est.data, i), "drift") /\ ~Has(At(est.data, i), "x_loop")

---------------------------------------------------------------------------
(* C19 *)

\* C19: when a window search returns, delta is a candidate it tried, no
\* candidate has a lower error, and every smaller candidate has a higher one.
C19_DeltaIsWinner ==
    (est.op \in {"optimize_to_y", "optimize_to_drift"} /\ est.ret = RetNone) =>
        \E k \in DOMAIN est.trace :
            /\ est.trace[k].N = est.delta
            /\ \A j \in DOMAIN est.trace :
                   ~QLt(est.trace[j].error, est.trace[k].error)
            /\ \A j \in 1..(k - 1) :
                   QLt(est.trace[k].error, est.trace[j].error)

---------------------------------------------------------------------------
(* C20 *)

\* C20: in a window search that returns, every candidate's error is taken
\* over the same records, all of them among the last n_samples records,
\* n_samples = len(data) - the largest candidate > 0.
C20_SameTrailingRecords ==
    (est.op \in {"optimize_to_y", "optimize_to_drift"} /\ est.ret = RetNone) =>
        LET largest   == est.trace[Len(est.trace)].N
            n_samples == Len(est.data) - largest
        IN  /\ n_samples > 0
            /\ \A k \in DOMAIN est.trace :
                   /\ est.trace[k].scored \subseteq
                          {i \in Idx(est.data) : i >= Len(est.data) - n_samples}
                   /\ est.trace[k].scored = est.trace[1].scored

---------------------------------------------------------------------------
(* C21 *)

\* An optimize_loop call with a known criterion and loss.
ValidLoopCall(o) ==
    /\ o.op = "optimize_loop"
    /\ o.args[1] \in {"cumulative", "instantaneous"}
    /\ o.args[2] \in {"mse", "max-error"}

\* The call o was given a cache that held, before the call, an entry for
\* the identifier with the dataset's length and the requested criterion,
\* and was not forced.
CacheHit(o) ==
    /\ o.args[3]
    /\ o.precache[o.args[4]] # NoCfg
    /\ ~o.args[5]
    /\ o.precache[o.args[4]].n_samples = Len(o.pre)
    /\ o.precache[o.args[4]].error = o.args[1]

\* C21: optimize_loop returns without evaluating any candidate exactly when
\* a cache is given, holds an entry for the identifier, force is false, and
\* the entry's n_samples is the dataset's length and its error the requested
\* criterion; it then returns the entry's damping and loopbw and leaves the
\* dataset and the cache as they were.
C21_ReuseIff ==
    ValidLoopCall(opt) =>
        /\ CacheHit(opt) <=> (opt.ret = RetNone /\ opt.trace = <<>>)
        /\ CacheHit(opt) =>
              /\ opt.best_damping = opt.precache[opt.args[4]].damping
              /\ opt.best_loopbw = opt.precache[opt.args[4]].loopbw
              /\ opt.data = opt.pre
              /\ opt.cache = opt.precache

\* A call that reuses an entry saved by an earlier sweep, and whose dataset
\* would have been rewritten by a sweep.
C21_Witness ==
    /\ ValidLoopCall(opt)
    /\ CacheHit(opt)
    /\ opt.trace = <<>>
    /\ opt.best_damping = Q(1, 1)
    /\ opt.data # loop(opt.data, Q(1, 1), Q(1, 2), opt.args[6])

---------------------------------------------------------------------------
(* C22 *)

\* The entry a sweep of the call o saves: the dataset's length, the
\* criterion and the parameters the call returned.
SavedCfg(o) ==
    [n_samples |-> Len(o.data), error |-> o.args[1],
     damping |-> o.best_damping, loopbw |-> o.best_loopbw]

\* The call o returned a candidate of its sweep that no other candidate's
\* error is below.
ReturnsWinner(o) ==
    \E k \in DOMAIN o.trace :
        /\ o.trace[k].damping = o.best_damping
        /\ o.trace[k].loopbw = o.best_loopbw
        /\ \A j \in DOMAIN o.trace : ~QLt(o.trace[j].error, o.trace[k].error)

\* C22: an optimize_loop call with a cache that does not reuse an entry
\* evaluates every candidate and leaves under the identifier the dataset's
\* length, the criterion and the winning damping and loopbw, in place of
\* what was there; an unforced call with the same cache, identifier and
\* criterion right after it returns those parameters.
C22_SweepSavedAndReturned ==
    /\ (ValidLoopCall(opt) /\ opt.args[3] /\ ~CacheHit(opt)) =>
          /\ opt.ret = RetNone
          /\ Len(opt.trace) = grid_len
          /\ ReturnsWinner(opt)
          /\ opt.cache = [opt.precache EXCEPT ![opt.args[4]] = SavedCfg(opt)]
    /\ (/\ ValidLoopCall(opt) /\ opt.args[3] /\ ~opt.args[5]
        /\ ValidLoopCall(opt.prev[1]) /\ opt.prev[1].args[3]
        /\ opt.prev[1].trace # <<>>
        /\ opt.prev[1].args[1] = opt.args[1]
        /\ opt.prev[1].args[4] = opt.args[4]) =>
          /\ opt.ret = RetNone
          /\ opt.trace = <<>>
          /\ opt.best_damping = opt.prev[1].best_damping
          /\ opt.best_loopbw = opt.prev[1].best_loopbw
          /\ opt.best_damping # Absent

---------------------------------------------------------------------------
(* C28 *)

\* C28: when the evaluation of a candidate raises in the sweep of
\* optimize_loop, the sweep goes on: every candidate of the grid is tried,
\* the call does not end with the candidate's exception, and the parameters
\* returned are not those of a candidate whose evaluation raised.
C28_FailedCandidateSkipped ==
    ValidLoopCall(opt) =>
        \A k \in DOMAIN opt.trace :
            opt.trace[k].ret # RetNone =>
                /\ Len(opt.trace) = grid_len
                /\ opt.ret # opt.trace[k].ret
                /\ ~(/\ opt.best_damping = opt.trace[k].damping
                     /\ opt.best_loopbw = opt.trace[k].loopbw)

---------------------------------------------------------------------------
(* C23 *)

\* The call e was given a window <= 0 (constructor, set_truth) or a
\* strategy, loss or criterion the program does not know.
InvalidCfg(e) ==
    \/ e.op \in {"Estimator", "set_truth"} /\ e.args.delta # None
                                           /\ e.args.delta <= 0
    \/ e.op = "process"
       /\ e.args.strategy \notin {"one-way", "one-way-reversed", "two-way"}
    \/ e.op \in {"optimize_to_y", "optimize_to_drift", "_eval_drift_err"}
       /\ e.args.loss \notin {"mse", "max-error"}
    \/ e.op \in {"optimize_to_drift", "_eval_drift_err"}
       /\ e.args.criterion \notin {"cumulative", "instantaneous"}

\* C23: a call with an invalid configuration raises, and the dataset and
\* the estimator's window are as they were before it.
C23_InvalidRejected ==
    InvalidCfg(est) =>
        /\ est.ret # RetNone
        /\ est.data = est.pre
        /\ est.delta = est.predelta

---------------------------------------------------------------------------
(* C24 *)

\* C24: sched_tx on a non-periodic message sets next_tx to the given time
\* and adds exactly that time to the event queue, nothing else changing; on
\* a periodic message it raises and leaves the message and the queue as
\* they were.
C24_SchedTxNonPeriodicOnly ==
    call.op = "sched_tx" =>
        IF call.pre.period_sec = None
        THEN /\ call.ret = RetNone
             /\ msg = [call.pre EXCEPT !.next_tx = call.sim_time]
             /\ mevts = Append(call.preEvts, call.sim_time)
        ELSE /\ call.ret = AssertionError
             /\ msg = call.pre
             /\ mevts = call.preEvts

---------------------------------------------------------------------------
(* C25 *)

\* C25: in run(), the tx_tstamp and rx_tstamp of a message read, at every
\* later point, what the RTC read at the instant of the message's last
\* transmission and reception.
C25_TimestampIsSnapshot ==
    /\ sim.snap["Sync-tx"].set =>
           Deref(sim, sim.sync.tx_tstamp) = sim.snap["Sync-tx"].time
    /\ sim.snap["Sync-rx"].set =>
           Deref(sim, sim.sync.rx_tstamp) = sim.snap["Sync-rx"].time
    /\ sim.snap["Delay_Req-tx"].set =>
           Deref(sim, sim.dreq.tx_tstamp) = sim.snap["Delay_Req-tx"].time
    /\ sim.snap["Delay_Req-rx"].set =>
           Deref(sim, sim.dreq.rx_tstamp) = sim.snap["Delay_Req-rx"].time

---------------------------------------------------------------------------
(* C26 *)

\* The four timestamps of the exchange record o are set.
AllSet(o) == o.t1 # None /\ o.t2 # None /\ o.t3 # None /\ o.t4 # None

\* C26: once t1, t2, t3 and t4 of an exchange record are set, no call of
\* set_t2, set_t3 or set_t4 on the record changes any of them.
C26_ImmutableOnceSet ==
    [][(/\ AllSet(drr)
        /\ \E q \in DrrSeqNums, t \in DrrStamps :
               SetT2(q, t) \/ SetT3(q, t) \/ SetT4(q, t))
       => /\ drr'.t1 = drr.t1 /\ drr'.t2 = drr.t2
          /\ drr'.t3 = drr.t3 /\ drr'.t4 = drr.t4]_vars

---------------------------------------------------------------------------
(* C27 *)

\* The additions so far were N >= 1 additions of one and the same delta,
\* small enough for N * delta to be formed in 32-bit integers.
EqualAdds ==
    /\ Len(regDeltas) >= 1
    /\ \A k \in DOMAIN regDeltas : regDeltas[k] = regDeltas[1]
    /\ regDeltas[1] <= NsPerSec \div Len(regDeltas)

\* The ns by which the register b is ahead of the register a.
NsAhead(a, b) == (b.sec - a.sec) * NsPerSec + (b.ns - a.ns)

\* C27: N additions of d ns leave the register as one addition of N * d ns
\* to the initial register does: normalized and N * d ns ahead of it.
C27_AddCompositional ==
    EqualAdds => /\ reg = add(regInit, Len(regDeltas) * regDeltas[1])
                 /\ 0 <= reg.ns /\ reg.ns < NsPerSec
                 /\ NsAhead(regInit, reg) = Len(regDeltas) * regDeltas[1]

\* Three additions of a quarter of a second to a register that started just
\* below a second: the nanoseconds wrapped on the way.
C27_Witness ==
    /\ EqualAdds
    /\ Len(regDeltas) = 3
    /\ regDeltas[1] = 250000000
    /\ regInit.ns = 999999999
    /\ reg = TimeReg(regInit.sec + 1, 749999999)

---------------------------------------------------------------------------
(* C29 *)

\* C29: an update at t leaves the increment count at
\* max(0, floor((t - phase_ns) / increment_ns)) whatever the updates before
\* it were, advances the time register by (new count - old count) *
\* increment_ns, and changes nothing if the update before it was at t too.
C29_UpdateCount ==
    [][rtcArgs' # rtcArgs =>
          LET t   == rtcArgs'[Len(rtcArgs')]
              raw == (t - rtc.phase_ns) \div rtc.inc_val_ns
          IN  /\ rtc'.inc_cnt = IF raw < 0 THEN 0 ELSE raw
              /\ NsAhead(rtc.time, rtc'.time) =
                     (rtc'.inc_cnt - rtc.inc_cnt) * rtc.inc_val_ns
              /\ 0 <= rtc'.time.ns /\ rtc'.time.ns < NsPerSec
              /\ (rtcArgs # <<>> /\ rtcArgs[Len(rtcArgs)] = t) => rtc' = rtc]_vars

\* An update at an earlier time than the one before it, then the same
\* update again, on an RTC that has counted increments.
C29_Witness ==
    /\ Len(rtcArgs) = 3
    /\ rtcArgs[1] > rtcArgs[2]
    /\ rtcArgs[2] = rtcArgs[3]
    /\ rtc.inc_cnt > 0

---------------------------------------------------------------------------
(* C30 *)

\* The last call was a successful rx of the PtpEvt of ptp/messages.py.
RxDone == msg.cls = "messages" /\ call.op = "rx" /\ call.ret = RetTrue

\* C30, as stated: on a successful rx the recorded one-way delay is the
\* receiver's RTC value at the reception minus the tx_timestamp.
C30_DelayFromReceiverRtc ==
    RxDone => msg.one_way_delay = msg.rx_tstamp - call.pre.tx_tstamp

\* C30, amended: on a successful rx the recorded one-way delay is the
\* transmitter's RTC value at the reception minus the tx_timestamp taken
\* from the same RTC at the transmission; the receiver's RTC value is kept
\* as rx_tstamp and has no part in the delay.
C30_DelayFromTransmitterRtc ==
    RxDone => /\ msg.one_way_delay = call.tx_rtc - call.pre.tx_tstamp
              /\ msg.rx_tstamp = call.stamp
              /\ msg.tx_tstamp = call.pre.tx_tstamp

\* A successful rx at which the two RTCs read differently.
C30_Witness ==
    /\ RxDone
    /\ call.tx_rtc # call.stamp
    /\ msg.one_way_delay > 0

---------------------------------------------------------------------------
(* C31 *)

\* The settling index of the loop() call that est records.
LoopSettling ==
    (est.args.settling.num * Len(est.data)) \div est.args.settling.den

\* The error loop() saw at record i, from what it published there.
LoopErr(i) == QSub(QInt(At(est.data, i).x_est), At(est.data, i).x_loop)

\* C31: after loop() the records before the settling index floor(settling *
\* N) hold neither drift nor x_loop and the others hold both; the first
\* published x_loop is x_est[0] (the first error is 0, so the tracked
\* estimate is still there at index 1) and the first published drift is what
\* an integrator started at 0 gives; from one published record to the next
\* x_loop[i+1] = x_loop[i] + drift[i], and drift[i+1] is Kp times the new
\* error plus the integrator advanced by Ki times the new error.
C31_LoopPublishes ==
    est.op = "loop" =>
        LET K == loop_gains(est.args.damping, est.args.loopbw)
            s == LoopSettling
        IN  /\ \A i \in Idx(est.data) :
                   /\ Has(At(est.data, i), "drift") <=> i >= s
                   /\ Has(At(est.data, i), "x_loop") <=> i >= s
            /\ (s <= 1 /\ s < Len(est.data)) =>
                   /\ At(est.data, s).x_loop = QInt(At(est.data, 0).x_est)
                   /\ At(est.data, s).drift =
                          QMul(QAdd(K.Kp, K.Ki), LoopErr(s))
            /\ \A i \in Idx(est.data) :
                   (i >= s /\ i + 1 < Len(est.data)) =>
                       /\ At(est.data, i + 1).x_loop =
                              QAdd(At(est.data, i).x_loop, At(est.data, i).drift)
                       /\ At(est.data, i + 1).drift =
                              QAdd(QAdd(At(est.data, i).drift,
                                        QMul(K.Kp, QSub(LoopErr(i + 1), LoopErr(i)))),
                                   QMul(K.Ki, LoopErr(i + 1)))

\* loop() with the default settling on six records that held the output of
\* an earlier loop(): record 0 holds nothing, and the published drifts differ.
C31_Witness ==
    /\ est.op = "loop"
    /\ Len(est.data) = 6
    /\ LoopSettling = 1
    /\ Has(At(est.pre, 0), "drift")
    /\ ~Has(At(est.data, 0), "drift")
    /\ At(est.data, 4).drift # At(est.data, 5).drift
    /\ At(est.data, 4).drift # QInt(0)

---------------------------------------------------------------------------
(* C32 *)

\* The derived fields a recompute operation reads or writes itself.
OwnFields(op) ==
    CASE op = "process"        -> {"y_est"}
      [] op = "estimate_drift" -> {"y_est", "drift"}
      [] op = "loop"           -> {"drift", "x_loop"}
      [] op = "set_truth"      -> {"rtc_y"}

\* C32: after process, estimate_drift, loop or set_truth no record holds a
\* derived field (y_est, drift, x_loop, rtc_y) left from before the call:
\* every derived field the operation does not itself work on is gone.
C32_DerivedFieldsCleared ==
    (/\ est.op \in {"process", "estimate_drift", "loop", "set_truth"}
     /\ est.ret = RetNone) =>
        \A i \in Idx(est.data) :
            \A f \in {"y_est", "drift", "x_loop", "rtc_y"} \ OwnFields(est.op) :
                ~Has(At(est.data, i), f)

---------------------------------------------------------------------------
(* C33 *)

\* The last call was a window search that returned.
WindowSearched ==
    est.op \in {"optimize_to_y", "optimize_to_drift"} /\ est.ret = RetNone

\* floor(log2(max_window_span * N)) of the window search est records, as the
\* largest k with 2^k <= max_window_span * N.
KMax ==
    CHOOSE k \in 0..8 :
        /\ Pow2(k) * est.args.max_window_span.den
               <= est.args.max_window_span.num * Len(est.data)
        /\ Pow2(k + 1) * est.args.max_window_span.den
               > est.args.max_window_span.num * Len(est.data)

\* The records that hold f after process() and estimate_drift() with the
\* window n on the dataset the search started from.
Estimated(n, f) ==
    {i \in Idx(est.pre) :
        Has(At(estimate_drift(est_process(est.pre, n, "two-way").data), i), f)}

\* C33: a window search that returns has tried Delta = 2^k for k = 1 .. kmax
\* = floor(log2(max_window_span * N)), each once and in ascending order; for
\* every candidate at least n_samples = N - 2^kmax records hold an estimate
\* (y_est, and the drift made from it), and n_samples > 0.
C33_WindowCandidates ==
    WindowSearched =>
        /\ KMax >= 1
        /\ Len(est.trace) = KMax
        /\ \A k \in 1..KMax :
               /\ est.trace[k].N = Pow2(k)
               /\ Cardinality(Estimated(Pow2(k), "y_est"))
                      >= Len(est.data) - Pow2(KMax)
               /\ Cardinality(Estimated(Pow2(k), "drift"))
                      >= Len(est.data) - Pow2(KMax)
        /\ Len(est.data) - Pow2(KMax) > 0

\* Both searches with two candidates, 2 and 4, the first of which won.
C33_Witness ==
    /\ WindowSearched
    /\ KMax = 2
    /\ est.trace[1].N = 2 /\ est.trace[2].N = 4
    /\ est.delta = 2

---------------------------------------------------------------------------
(* C34 *)

\* The positions of the event e among the events of the last call.
EventsAt(e) == {k \in DOMAIN opt.events : opt.events[k] = e}

\* C34: within one optimize_loop call the cache is loaded at most once and
\* before every candidate evaluation, saved at most once and after every
\* candidate evaluation: no load or save lies between two evaluations.
C34_CacheIoAtEntryAndExit ==
    opt.op = "optimize_loop" =>
        /\ Cardinality(EventsAt("load")) <= 1
        /\ Cardinality(EventsAt("save")) <= 1
        /\ \A k \in EventsAt("load") : \A j \in EventsAt("eval") : k < j
        /\ \A k \in EventsAt("save") : \A j \in EventsAt("eval") : j < k
        /\ \A k \in EventsAt("load") : k = 1
        /\ \A k \in EventsAt("save") : k = Len(opt.events)
        /\ (opt.cache # opt.precache) => EventsAt("save") # {}

\* A call that loaded an entry it could not use, evaluated both candidates
\* and saved the winner.
C34_Witness ==
    /\ opt.op = "optimize_loop"
    /\ opt.events = <<"load", "eval", "eval", "save">>
    /\ opt.precache[opt.args[4]] # NoCfg
    /\ opt.cache # opt.precache

---------------------------------------------------------------------------
(* C35 *)

\* How many transitions named what the run has logged.
Logged_n(what) ==
    Cardinality({k \in DOMAIN sim.log : sim.log[k][1] = what})

\* C35: in the simulation loop the Delay_Req is transmitted at most once per
\* scheduling: the number of Delay_Req transmissions never exceeds the
\* number of Sync receptions.
C35_DreqOncePerScheduling ==
    sim.pc # "none" => Logged_n("Delay_Req-tx") <= Logged_n("Sync-rx")

---------------------------------------------------------------------------
(* C36 *)

\* C36: with delays >= 0 and a Sync period > 0 the simulation time never
\* decreases from one step of the loop to the next, and every time on the
\* event heap, pushed at or after the simulation time of its push, is still
\* at or after the current simulation time.
C36_TimeNeverDecreases ==
    [][/\ sim'.sim_time >= sim.sim_time
       /\ \A k \in DOMAIN sim'.evts : sim'.evts[k] >= sim'.sim_time
       /\ \A k \in DOMAIN sim'.evts :
              (\A j \in DOMAIN sim.evts : sim.evts[j] # sim'.evts[k]) =>
                  sim'.evts[k] >= sim.sim_time]_vars

\* The loop at the second Sync transmission while a Sync that takes longer
\* than the period is on its way: the heap holds the reception ahead.
C36_Witness ==
    /\ sim.pc = "update"
    /\ sim.sim_time = SyncPeriod
    /\ sim.sync.on_way
    /\ \E k \in DOMAIN sim.evts : sim.evts[k] > sim.sim_time
    /\ Len(sim.evts) >= 2

---------------------------------------------------------------------------
(* C37 *)

\* The tick has logged the transition what.
DoneInTick(what) == \E k \in DOMAIN sim.log : sim.log[k][1] = what

\* The scheduled instant of m has come.
Due(m) == m.next_tx <= sim.sim_time

\* C37: while the loop keeps running, a message in flight is eventually
\* received, and a transmission whose instant came while the message before
\* it was in flight is eventually made: until a Sync is transmitted, an
\* instant that has come stays due.
C37_NoLostWakeup ==
    /\ sim.sync.on_way ~> ~sim.sync.on_way
    /\ sim.dreq.on_way ~> ~sim.dreq.on_way
    /\ (sim.sync.on_way /\ Due(sim.sync)) ~> DoneInTick("Sync-tx")
    /\ (sim.dreq.on_way /\ Due(sim.dreq)) ~> DoneInTick("Delay_Req-tx")
    /\ [][Due(sim.sync) =>
              \/ Due(sim.sync)'
              \/ sim.pc = "sync_tx" /\ ~sim.sync.on_way /\ sim'.sync.on_way]_vars

\* The Sync period has passed while a Sync that takes longer is on its way:
\* its successor is due and cannot be sent yet.
C37_Witness ==
    /\ sim.pc = "sync_rx"
    /\ sim.sync.on_way
    /\ Due(sim.sync)
    /\ sim.sync.next_rx > sim.sim_time

---------------------------------------------------------------------------
(* C38 *)

\* The last candidate of the call opt records.
LastTried == opt.trace[Len(opt.trace)]

\* C38: a window search that returns leaves y_est on record i iff i >= the
\* largest window tried, with the values process() gives for that window
\* (and, after optimize_to_drift, the drifts made from them), whichever
\* window is in delta; an optimize_loop that sweeps and returns leaves the
\* drift and x_loop of loop() with the last pair of the grid, and one that
\* returns a cached configuration leaves the dataset as it was.
C38_LastCandidateLeft ==
    /\ (opt.op \in {"optimize_to_y", "optimize_to_drift"} /\ opt.ret = RetNone) =>
           /\ LastTried.N = Pow2(Len(opt.trace))
           /\ \A i \in Idx(opt.data) :
                  /\ Has(At(opt.data, i), "y_est") <=> i >= LastTried.N
                  /\ i >= LastTried.N =>
                         At(opt.data, i).y_est =
                             process_y_est(opt.pre, LastTried.N, "two-way", i)
                  /\ opt.op = "optimize_to_drift" =>
                         /\ Has(At(opt.data, i), "drift") <=> i >= LastTried.N
                         /\ i >= LastTried.N =>
                                At(opt.data, i).drift =
                                    QMul(At(opt.data, i).y_est,
                                         QInt(At(opt.data, i).t1
                                              - At(opt.data, i - 1).t1))
                  /\ opt.op = "optimize_to_y" =>
                         At(opt.data, i).drift = At(opt.pre, i).drift
                  /\ At(opt.data, i).x_loop = At(opt.pre, i).x_loop
    /\ (opt.op = "optimize_loop" /\ opt.ret = RetNone) =>
           IF opt.trace = <<>>
           THEN opt.data = opt.pre
           ELSE /\ LastTried.damping = damping_vec[Len(damping_vec)]
                /\ LastTried.loopbw = loopbw_vec[Len(loopbw_vec)]
                /\ opt.data = loop(opt.pre, LastTried.damping, LastTried.loopbw,
                                   opt.args[6])

\* A window search whose winner is not the last window tried, on a dataset
\* that held the output of a sweep won by the first pair of the grid.
C38_Witness ==
    /\ opt.op = "optimize_to_drift" /\ opt.ret = RetNone
    /\ Len(opt.trace) = 2
    /\ opt.delta = 2
    /\ Has(At(opt.data, 4), "y_est") /\ ~Has(At(opt.data, 2), "y_est")
    /\ opt.prev[1].op = "optimize_loop" /\ opt.prev[1].ret = RetNone
    /\ opt.prev[1].trace # <<>>
    /\ opt.prev[1].best_damping = damping_vec[1]

---------------------------------------------------------------------------
(* C39 *)

\* The call before the last one swept under another loss and saved its
\* winners under the identifier and criterion of the last call, which is not
\* forced; both on the same dataset.
OtherLossTuned ==
    /\ ValidLoopCall(opt)
    /\ opt.args[3] /\ ~opt.args[5]
    /\ opt.prev[1].op = "optimize_loop"
    /\ opt.prev[1].ret = RetNone
    /\ opt.prev[1].trace # <<>>
    /\ opt.prev[1].args[3]
    /\ opt.prev[1].args[4] = opt.args[4]
    /\ opt.prev[1].args[1] = opt.args[1]
    /\ opt.prev[1].args[2] # opt.args[2]

\* C39: an unforced optimize_loop call returns the configuration a sweep
\* under the other loss function saved for the same identifier, criterion and
\* dataset length: no candidate is evaluated under the loss requested, the
\* dataset and the cache stay as they were.
C39_LossNotInValidity ==
    OtherLossTuned =>
        /\ opt.ret = RetNone
        /\ opt.trace = <<>>
        /\ opt.best_damping = opt.prev[1].best_damping
        /\ opt.best_loopbw = opt.prev[1].best_loopbw
        /\ opt.cache = opt.precache
        /\ opt.data = opt.pre

\* A sweep under mse, then a call for max-error that gets its winners.
C39_Witness ==
    /\ OtherLossTuned
    /\ opt.prev[1].args[2] = "mse"
    /\ opt.args[2] = "max-error"
    /\ opt.best_damping # Absent

===========================================================================
